---- MODULE Spec2Model ----
(***************************************************************************)
(* The fuzzy text locator of legal-cat: PDFProcessor.find_text_fuzzy and   *)
(* its helpers (src/back/app/pdf_processor.py).                            *)
(*                                                                         *)
(* Text is a sequence of one-character strings.  Coordinates of the page   *)
(* are integers; emitted rectangles are kept in hundredths of a point so   *)
(* that the factors 0.02, 0.1 and 1.5 of the code stay exact.  Scores and  *)
(* thresholds are exact fractions [n, d] with d > 0.                       *)
(*                                                                         *)
(* The search primitive page.search_for belongs to the PDF library: a      *)
(* document carries the table of what it answers ("found"), every string   *)
(* outside the table is not found.                                         *)
(***************************************************************************)
EXTENDS Integers, Sequences, FiniteSets, TLC

VARIABLES
    pc,                   \* position of each call in find_text_fuzzy
    doc,                  \* the document opened by fitz.open(pdf_path)
    doc_open,             \* whether that document is currently open
    n_close,              \* how many times doc.close() ran
    search_text,          \* argument
    page_num,             \* argument
    similarity_threshold, \* argument
    rectangles,           \* the local list of the call
    chunks,               \* the Tier-3 candidates
    ci,                   \* index of the candidate the chunk loop is at
    searched,             \* instrumentation: arguments of page.search_for, in order
    n_fuzzy,              \* instrumentation: calls of _fuzzy_line_search
    printed,              \* the outcome message the call printed
    result,               \* the returned list (meaningful once pc = "done")
    upload_pc,            \* position of the upload handler in its highlight loop
    highlights,           \* analysis_data["highlights"]
    highlight_index,      \* the highlight the loop is at
    processed_highlights  \* the list the handler stores

vars == <<pc, doc, doc_open, n_close, search_text, page_num, similarity_threshold,
          rectangles, chunks, ci, searched, n_fuzzy, printed, result,
          upload_pc, highlights, highlight_index, processed_highlights>>

\* The state of the upload handler.
upload_vars == <<upload_pc, highlights, highlight_index, processed_highlights>>

\* The calls that may be in progress.
Procs == {"c1", "c2"}

-----------------------------------------------------------------------------
(* Bounds of the model. *)

\* Longest query of the letter family, in words.
MaxWords == 14

\* Most instances the search primitive reports for one string.
MaxHits == 2

\* Most pages of a document.
MaxPages == 2

\* Most highlights of one analysis.
MaxHighlights == 3

-----------------------------------------------------------------------------
(* Numbers *)

Max2(a, b) == IF a >= b THEN a ELSE b

Min2(a, b) == IF a <= b THEN a ELSE b

SetMin(S) == CHOOSE x \in S : \A y \in S : x <= y

SetMax(S) == CHOOSE x \in S : \A y \in S : x >= y

\* Rectangle fields are floats; the model keeps them in hundredths.
Unit == 100

\* Fractions.
Frac(n, d) == [n |-> n, d |-> d]

FracGt(a, b) == a.n * b.d > b.n * a.d

FracEq(a, b) == a.n * b.d = b.n * a.d

FracMax(a, b) == IF FracGt(b, a) THEN b ELSE a

-----------------------------------------------------------------------------
(* Python string operations *)

IsSpace(c) == c \in {" ", "\t"}

UpperCase ==
    <<"A","B","C","D","E","F","G","H","I","J","K","L","M","N","O","P","Q","R","S","T","U","V","W","X","Y","Z">>

LowerCase ==
    <<"a","b","c","d","e","f","g","h","i","j","k","l","m","n","o","p","q","r","s","t","u","v","w","x","y","z">>

\* str.lower()
lower(s) ==
    [i \in 1..Len(s) |->
        IF \E k \in 1..26 : UpperCase[k] = s[i]
        THEN LowerCase[CHOOSE k \in 1..26 : UpperCase[k] = s[i]]
        ELSE s[i]]

\* str.strip()
strip(s) ==
    LET keep == {i \in 1..Len(s) : ~IsSpace(s[i])}
    IN  IF keep = {} THEN <<>> ELSE SubSeq(s, SetMin(keep), SetMax(keep))

\* str.split() without arguments: i is the position reached, w the word begun
RECURSIVE split_from(_, _, _)
split_from(s, i, w) ==
    IF i > Len(s) THEN (IF w = <<>> THEN <<>> ELSE <<w>>)
    ELSE IF IsSpace(s[i])
         THEN (IF w = <<>> THEN <<>> ELSE <<w>>) \o split_from(s, i + 1, <<>>)
         ELSE split_from(s, i + 1, Append(w, s[i]))

split(s) == split_from(s, 1, <<>>)

\* ' '.join(words)
RECURSIVE join(_)
join(words) ==
    IF words = <<>> THEN <<>>
    ELSE IF Len(words) = 1 THEN words[1]
    ELSE words[1] \o <<" ">> \o join(Tail(words))

\* re.sub(r'\s+', ' ', s): every run of whitespace becomes one space
RECURSIVE sub_ws_from(_, _)
sub_ws_from(s, i) ==
    IF i > Len(s) THEN <<>>
    ELSE IF ~IsSpace(s[i]) THEN <<s[i]>> \o sub_ws_from(s, i + 1)
    ELSE IF i > 1 /\ IsSpace(s[i - 1]) THEN sub_ws_from(s, i + 1)
    ELSE <<" ">> \o sub_ws_from(s, i + 1)

sub_ws(s) == sub_ws_from(s, 1)

\* a in b, for strings
InStr(a, b) == \E i \in 0..(Len(b) - Len(a)) : SubSeq(b, i + 1, i + Len(a)) = a

\* word in words, for a list of strings
InList(w, ws) == \E i \in 1..Len(ws) : ws[i] = w

\* set(words)
ToSet(ws) == {ws[i] : i \in 1..Len(ws)}

-----------------------------------------------------------------------------
(* The PDF library *)

\* page.search_for(needle): the raw rectangles of every instance.
search_for(page, needle) ==
    IF needle \in DOMAIN page.found THEN page.found[needle] ELSE <<>>

\* doc[i]: the outcomes of loading page i of a document of n pages.  An index
\* past the end raises; what a negative index does is the library's choice.
getitem(n, i) ==
    IF i >= n THEN {"IndexError"}
    ELSE IF i >= 0 THEN {"page"}
    ELSE {"page", "IndexError"}

-----------------------------------------------------------------------------
(* Rectangles (models.Rectangle), in hundredths *)

Rectangle(x, y, width, height) == [x |-> x, y |-> y, width |-> width, height |-> height]

\* Mutation of padding_x: 2% of the width, without the minimum of 2.
padding_x_NoMinimum(rect) == (rect.x1 - rect.x0) * 2

\* padding_x = max(2, (rect.x1 - rect.x0) * 0.02)
padding_x(rect) == Max2(2 * Unit, (rect.x1 - rect.x0) * 2)

\* padding_y = max(1, (rect.y1 - rect.y0) * 0.1)
padding_y(rect) == Max2(1 * Unit, (rect.y1 - rect.y0) * 10)

\* Mutation of ExactRectangle: the y_offset of the other tiers (3) in Tier 1.
ExactRectangle_OffsetThree(rect) ==
    Rectangle(Max2(0, rect.x0 * Unit - padding_x(rect) + 150),
              Max2(0, rect.y0 * Unit - padding_y(rect) + 3 * Unit),
              (rect.x1 - rect.x0) * Unit + 2 * padding_x(rect),
              (rect.y1 - rect.y0) * Unit + 2 * padding_y(rect))

\* Mutation of ExactRectangle: a rectangle whose origin is clamped is clipped
\* at its padded right and bottom edge.
ExactRectangle_Clipped(rect) ==
    Rectangle(Max2(0, rect.x0 * Unit - padding_x(rect) + 150),
              Max2(0, rect.y0 * Unit - padding_y(rect) + 25 * Unit),
              (rect.x1 * Unit + padding_x(rect) + 150)
                  - Max2(0, rect.x0 * Unit - padding_x(rect) + 150),
              (rect.y1 * Unit + padding_y(rect) + 25 * Unit)
                  - Max2(0, rect.y0 * Unit - padding_y(rect) + 25 * Unit))

\* Tier 1: y_offset = 25, x_offset = 1.5 (150 hundredths)
ExactRectangle(rect) ==
    Rectangle(Max2(0, rect.x0 * Unit - padding_x(rect) + 150),
              Max2(0, rect.y0 * Unit - padding_y(rect) + 25 * Unit),
              (rect.x1 - rect.x0) * Unit + 2 * padding_x(rect),
              (rect.y1 - rect.y0) * Unit + 2 * padding_y(rect))

\* Mutation of CleanRectangle: the width grows by one padding, not by two.
CleanRectangle_HalfPadded(rect) ==
    Rectangle(Max2(0, rect.x0 * Unit - padding_x(rect)),
              Max2(0, rect.y0 * Unit - padding_y(rect) + 3 * Unit),
              (rect.x1 - rect.x0) * Unit + padding_x(rect),
              (rect.y1 - rect.y0) * Unit + 2 * padding_y(rect))

\* Tier 2: y_offset = 3, no x_offset
CleanRectangle(rect) ==
    Rectangle(Max2(0, rect.x0 * Unit - padding_x(rect)),
              Max2(0, rect.y0 * Unit - padding_y(rect) + 3 * Unit),
              (rect.x1 - rect.x0) * Unit + 2 * padding_x(rect),
              (rect.y1 - rect.y0) * Unit + 2 * padding_y(rect))

\* Tier 3: y_offset = 3, no x_offset
ChunkRectangle(rect) ==
    Rectangle(Max2(0, rect.x0 * Unit - padding_x(rect)),
              Max2(0, rect.y0 * Unit - padding_y(rect) + 3 * Unit),
              (rect.x1 - rect.x0) * Unit + 2 * padding_x(rect),
              (rect.y1 - rect.y0) * Unit + 2 * padding_y(rect))

\* Mutation of LineRectangle: the box of the first span stands for the line.
LineRectangle_FirstSpan(line_rects) ==
    Rectangle(Max2(0, (line_rects[1][1] - 2) * Unit),
              Max2(0, (line_rects[1][2] - 1 + 3) * Unit),
              ((line_rects[1][3] - line_rects[1][1]) + 4) * Unit,
              ((line_rects[1][4] - line_rects[1][2]) + 2) * Unit)

\* Tier 4: the union box of the line's spans, padded by 2 and 1, moved down by 3.
LineRectangle(line_rects) ==
    LET min_x == SetMin({line_rects[i][1] : i \in 1..Len(line_rects)})
        min_y == SetMin({line_rects[i][2] : i \in 1..Len(line_rects)})
        max_x == SetMax({line_rects[i][3] : i \in 1..Len(line_rects)})
        max_y == SetMax({line_rects[i][4] : i \in 1..Len(line_rects)})
    IN  Rectangle(Max2(0, (min_x - 2) * Unit),
                  Max2(0, (min_y - 1 + 3) * Unit),
                  ((max_x - min_x) + 4) * Unit,
                  ((max_y - min_y) + 2) * Unit)

\* Mutation of ExactRectangles: only the first instance gets a rectangle.
ExactRectangles_FirstOnly(matches) ==
    IF matches = <<>> THEN <<>> ELSE <<ExactRectangle(matches[1])>>

\* for rect in matches: rectangles.append(Rectangle(...)), one loop per tier
ExactRectangles(matches) == [i \in 1..Len(matches) |-> ExactRectangle(matches[i])]

\* Mutation of CleanRectangles: only the first instance gets a rectangle.
CleanRectangles_FirstOnly(matches) ==
    IF matches = <<>> THEN <<>> ELSE <<CleanRectangle(matches[1])>>

CleanRectangles(matches) == [i \in 1..Len(matches) |-> CleanRectangle(matches[i])]

ChunkRectangles(matches) == [i \in 1..Len(matches) |-> ChunkRectangle(matches[i])]

-----------------------------------------------------------------------------
(* Tier 3: the candidate chunks *)

\* Mutation of make_chunks: the 6-word candidates come before the halves.
make_chunks_SixFirst(text) ==
    LET words == split(text)
        n == Len(words)
        k == Min2(6, n)
    IN  << join(SubSeq(words, 1, k)),
           join(SubSeq(words, n - k + 1, n)),
           join(SubSeq(words, 1, n \div 2)),
           join(SubSeq(words, n \div 2 + 1, n)) >>

\* Mutation of make_chunks: the halves are cut at len(words) / 2 rounded up.
make_chunks_HalfRoundedUp(text) ==
    LET words == split(text)
        n == Len(words)
        k == Min2(6, n)
    IN  << join(SubSeq(words, 1, (n + 1) \div 2)),
           join(SubSeq(words, (n + 1) \div 2 + 1, n)),
           join(SubSeq(words, 1, k)),
           join(SubSeq(words, n - k + 1, n)) >>

\* Mutation of make_chunks: the third and fourth candidate are the first and
\* the last 4 words.
make_chunks_FourWords(text) ==
    LET words == split(text)
        n == Len(words)
        k == Min2(4, n)
    IN  << join(SubSeq(words, 1, n \div 2)),
           join(SubSeq(words, n \div 2 + 1, n)),
           join(SubSeq(words, 1, k)),
           join(SubSeq(words, n - k + 1, n)) >>

\* Mutation of make_chunks: the third and fourth candidate are the first and
\* the last 5 words.
make_chunks_FiveWords(text) ==
    LET words == split(text)
        n == Len(words)
        k == Min2(5, n)
    IN  << join(SubSeq(words, 1, n \div 2)),
           join(SubSeq(words, n \div 2 + 1, n)),
           join(SubSeq(words, 1, k)),
           join(SubSeq(words, n - k + 1, n)) >>

\* chunks = [first half, second half, first 6 words, last 6 words]
make_chunks(text) ==
    LET words == split(text)
        n == Len(words)
        k == Min2(6, n)
    IN  << join(SubSeq(words, 1, n \div 2)),
           join(SubSeq(words, n \div 2 + 1, n)),
           join(SubSeq(words, 1, k)),
           join(SubSeq(words, n - k + 1, n)) >>

\* Mutation of has_chunks: three words are enough.
has_chunks_ThreeOrMore(text) == Len(split(text)) >= 3

\* if len(search_text.split()) > 3
has_chunks(text) == Len(split(text)) > 3

\* Mutation of chunk_is_tried: the characters that are not whitespace are
\* counted.
chunk_is_tried_NonSpace(chunk) ==
    Cardinality({i \in 1..Len(chunk) : ~IsSpace(chunk[i])}) > 3

\* if len(chunk.strip()) > 3
chunk_is_tried(chunk) == Len(strip(chunk)) > 3

-----------------------------------------------------------------------------
(* Tier 4: the fuzzy line search *)

\* Mutation of _similarity: the intersection is divided by the size of the
\* second word set, not by the size of the union.
similarity_OverSecond(text1, text2) ==
    LET words1 == ToSet(split(text1))
        words2 == ToSet(split(text2))
    IN  IF words1 = {} /\ words2 = {} THEN Frac(1, 1)
        ELSE IF words1 = {} \/ words2 = {} THEN Frac(0, 1)
        ELSE Frac(Cardinality(words1 \cap words2), Cardinality(words2))

\* _similarity: Jaccard similarity of the two word sets
similarity(text1, text2) ==
    LET words1 == ToSet(split(text1))
        words2 == ToSet(split(text2))
    IN  IF words1 = {} /\ words2 = {} THEN Frac(1, 1)
        ELSE IF words1 = {} \/ words2 = {} THEN Frac(0, 1)
        ELSE Frac(Cardinality(words1 \cap words2), Cardinality(words1 \cup words2))

\* word_score = word_matches / len(search_words) if search_words else 0
word_score(line_words, search_words) ==
    LET n == Len(search_words)
    IN  IF n > 0
        THEN Frac(Cardinality({i \in 1..n : InList(search_words[i], line_words)}), n)
        ELSE Frac(0, 1)

\* Mutation of partial_score: the inner loop stops at the first line word that
\* matches, so that a search word adds 0.5 once.
partial_score_PerWord(line_words, search_words) ==
    LET n == Len(search_words)
        halves == Cardinality({i \in 1..n : \E j \in 1..Len(line_words) :
                      \/ Len(search_words[i]) > 3 /\ InStr(search_words[i], line_words[j])
                      \/ Len(line_words[j]) > 3 /\ InStr(line_words[j], search_words[i])})
    IN  IF n > 0
        THEN (IF halves >= 2 * n THEN Frac(1, 1) ELSE Frac(halves, 2 * n))
        ELSE Frac(0, 1)

\* Mutation of partial_score: the sum is divided by len(search_words) and not
\* capped at 1.0.
partial_score_Uncapped(line_words, search_words) ==
    LET n == Len(search_words)
        halves == Cardinality({ij \in (1..n) \X (1..Len(line_words)) :
                      \/ Len(search_words[ij[1]]) > 3
                            /\ InStr(search_words[ij[1]], line_words[ij[2]])
                      \/ Len(line_words[ij[2]]) > 3
                            /\ InStr(line_words[ij[2]], search_words[ij[1]])})
    IN  IF n > 0 THEN Frac(halves, 2 * n) ELSE Frac(0, 1)

\* 0.5 for every pair (search word, line word) of which one, longer than 3
\* characters, is contained in the other; divided by len(search_words), at most 1.0
partial_score(line_words, search_words) ==
    LET n == Len(search_words)
        halves == Cardinality({ij \in (1..n) \X (1..Len(line_words)) :
                      \/ Len(search_words[ij[1]]) > 3
                            /\ InStr(search_words[ij[1]], line_words[ij[2]])
                      \/ Len(line_words[ij[2]]) > 3
                            /\ InStr(line_words[ij[2]], search_words[ij[1]])})
    IN  IF n > 0
        THEN (IF halves >= 2 * n THEN Frac(1, 1) ELSE Frac(halves, 2 * n))
        ELSE Frac(0, 1)

\* Mutation of _calculate_match_score: the word-overlap score is left out of
\* the maximum.
calculate_match_score_NoWordScore(text, line_text, search_words) ==
    IF InStr(text, line_text) THEN Frac(1, 1)
    ELSE FracMax(partial_score(split(line_text), search_words),
                 similarity(text, line_text))

\* _calculate_match_score
calculate_match_score(text, line_text, search_words) ==
    IF InStr(text, line_text) THEN Frac(1, 1)
    ELSE LET line_words == split(line_text)
         IN  FracMax(FracMax(word_score(line_words, search_words),
                             partial_score(line_words, search_words)),
                     similarity(text, line_text))

\* The lines of the page in scan order: blocks with "lines", then their lines.
RECURSIVE page_lines(_)
page_lines(blocks) ==
    IF blocks = <<>> THEN <<>>
    ELSE (IF "lines" \in DOMAIN Head(blocks) THEN Head(blocks).lines ELSE <<>>)
         \o page_lines(Tail(blocks))

\* line_text += span_text, for every span of the line
RECURSIVE line_text_of(_)
line_text_of(spans) ==
    IF spans = <<>> THEN <<>> ELSE Head(spans).text \o line_text_of(Tail(spans))

\* line_rects.append(span["bbox"])
line_rects_of(spans) == [i \in 1..Len(spans) |-> spans[i].bbox]

\* clean_search = re.sub(r'\s+', ' ', search_text.lower().strip())
clean_lower(text) == sub_ws(strip(lower(text)))

\* score of one line against the query
line_score(line, text) ==
    calculate_match_score(clean_lower(text),
                          clean_lower(line_text_of(line.spans)),
                          split(clean_lower(text)))

\* Mutation of the qualification test: a score equal to the best so far
\* qualifies as well.
line_qualifies_OrEqual(score, threshold, best_score) ==
    FracGt(score, threshold) /\ ~FracGt(best_score, score)

\* Mutation of the qualification test: >= threshold instead of > threshold.
line_qualifies_AtThreshold(score, threshold, best_score) ==
    ~FracGt(threshold, score) /\ FracGt(score, best_score)

\* if score > threshold and score > best_score
line_qualifies(score, threshold, best_score) ==
    FracGt(score, threshold) /\ FracGt(score, best_score)

\* The loop over the lines: best_score starts at 0 and best_match at None
\* (the empty list here); the result is [best_match] or [].
RECURSIVE scan_lines(_, _, _, _, _)
scan_lines(lines, text, threshold, best_score, best_match) ==
    IF lines = <<>> THEN best_match
    ELSE LET score == line_score(Head(lines), text)
             line_rects == line_rects_of(Head(lines).spans)
         IN  IF line_qualifies(score, threshold, best_score)
             THEN scan_lines(Tail(lines), text, threshold, score,
                             IF line_rects # <<>>
                             THEN <<LineRectangle(line_rects)>>
                             ELSE best_match)
             ELSE scan_lines(Tail(lines), text, threshold, best_score, best_match)

\* Mutation of _fuzzy_line_search: the running best score starts below every
\* score, at -1.
fuzzy_line_search_BestFromBelow(page, text, threshold) ==
    scan_lines(page_lines(page.blocks), text, threshold, Frac(0 - 1, 1), <<>>)

\* _fuzzy_line_search
fuzzy_line_search(page, text, threshold) ==
    scan_lines(page_lines(page.blocks), text, threshold, Frac(0, 1), <<>>)

-----------------------------------------------------------------------------
(* The calls: find_text_fuzzy, one action per step *)

\* Mutation of clean_search_of: the runs are collapsed, the ends are not
\* stripped.
clean_search_of_NoStrip(text) == sub_ws(text)

\* clean_search = re.sub(r'\s+', ' ', search_text.strip())
clean_search_of(text) == sub_ws(strip(text))

\* Mutation of page_of: the document is kept in a field of the PDFProcessor
\* that all calls share, and holds what call c1 opened.
page_of_Shared(p) == doc["c1"]

\* The page the call works on (doc[page_num - 1]).
page_of(p) == doc[p]

\* def find_text_fuzzy(self, pdf_path, search_text, page_num, similarity_threshold):
\*     doc = fitz.open(pdf_path); rectangles = []
Call(p, a) ==
    /\ pc[p] = "idle"
    /\ pc' = [pc EXCEPT ![p] = "guard"]
    /\ doc' = [doc EXCEPT ![p] = a.pdf_path]
    /\ doc_open' = [doc_open EXCEPT ![p] = TRUE]
    /\ search_text' = [search_text EXCEPT ![p] = a.search_text]
    /\ page_num' = [page_num EXCEPT ![p] = a.page_num]
    /\ similarity_threshold' = [similarity_threshold EXCEPT ![p] = a.similarity_threshold]
    /\ rectangles' = [rectangles EXCEPT ![p] = <<>>]
    /\ chunks' = [chunks EXCEPT ![p] = <<>>]
    /\ ci' = [ci EXCEPT ![p] = 0]
    /\ searched' = [searched EXCEPT ![p] = <<>>]
    /\ n_fuzzy' = [n_fuzzy EXCEPT ![p] = 0]
    /\ n_close' = [n_close EXCEPT ![p] = 0]
    /\ printed' = [printed EXCEPT ![p] = ""]
    /\ UNCHANGED result

\* Mutation of the page guard: one page too many is let through.
page_in_range_OffByOne(n, len) == n <= len + 1

\* Mutation of the page guard: page numbers below 1 are rejected as well.
page_in_range_FromOne(n, len) == 1 <= n /\ n <= len

\* if page_num <= len(doc)
page_in_range(n, len) == n <= len

\* if page_num <= len(doc): page = doc[page_num - 1]
Guard(p) ==
    /\ pc[p] = "guard"
    /\ IF page_in_range(page_num[p], doc[p].len)
       THEN \E o \in getitem(doc[p].len, page_num[p] - 1) :
                pc' = [pc EXCEPT ![p] = IF o = "page" THEN "tier1" ELSE "raised"]
       ELSE pc' = [pc EXCEPT ![p] = "close"]
    /\ UNCHANGED <<doc, doc_open, n_close, search_text, page_num, similarity_threshold,
                   rectangles, chunks, ci, searched, n_fuzzy, printed, result>>

\* Mutation of Tier1: after a match the call does not return but goes on to
\* Tier 2.
Tier1_NoReturn(p) ==
    /\ pc[p] = "tier1"
    /\ searched' = [searched EXCEPT ![p] = Append(@, search_text[p])]
    /\ LET exact_matches == search_for(page_of(p), search_text[p])
       IN  IF exact_matches # <<>>
           THEN /\ rectangles' = [rectangles EXCEPT ![p] = @ \o ExactRectangles(exact_matches)]
                /\ printed' = [printed EXCEPT ![p] = "exact"]
           ELSE UNCHANGED <<rectangles, printed>>
    /\ pc' = [pc EXCEPT ![p] = "tier2"]
    /\ UNCHANGED <<doc, doc_open, n_close, search_text, page_num, similarity_threshold,
                   chunks, ci, n_fuzzy, result>>

\* Mutation of Tier1: the query is normalized before the first search.
Tier1_CleanFirst(p) ==
    /\ pc[p] = "tier1"
    /\ searched' = [searched EXCEPT ![p] = Append(@, clean_search_of(search_text[p]))]
    /\ LET exact_matches == search_for(page_of(p), clean_search_of(search_text[p]))
       IN  IF exact_matches # <<>>
           THEN /\ rectangles' = [rectangles EXCEPT ![p] = @ \o ExactRectangles(exact_matches)]
                /\ printed' = [printed EXCEPT ![p] = "exact"]
                /\ pc' = [pc EXCEPT ![p] = "close"]
           ELSE /\ pc' = [pc EXCEPT ![p] = "tier2"]
                /\ UNCHANGED <<rectangles, printed>>
    /\ UNCHANGED <<doc, doc_open, n_close, search_text, page_num, similarity_threshold,
                   chunks, ci, n_fuzzy, result>>

\* exact_matches = page.search_for(search_text); if exact_matches: ...
Tier1(p) ==
    /\ pc[p] = "tier1"
    /\ searched' = [searched EXCEPT ![p] = Append(@, search_text[p])]
    /\ LET exact_matches == search_for(page_of(p), search_text[p])
       IN  IF exact_matches # <<>>
           THEN /\ rectangles' = [rectangles EXCEPT ![p] = @ \o ExactRectangles(exact_matches)]
                /\ printed' = [printed EXCEPT ![p] = "exact"]
                /\ pc' = [pc EXCEPT ![p] = "close"]
           ELSE /\ pc' = [pc EXCEPT ![p] = "tier2"]
                /\ UNCHANGED <<rectangles, printed>>
    /\ UNCHANGED <<doc, doc_open, n_close, search_text, page_num, similarity_threshold,
                   chunks, ci, n_fuzzy, result>>

\* Mutation of Tier2: the early return after a match leaves out doc.close().
Tier2_NoClose(p) ==
    /\ pc[p] = "tier2"
    /\ searched' = [searched EXCEPT ![p] = Append(@, clean_search_of(search_text[p]))]
    /\ LET clean_exact_matches == search_for(page_of(p), clean_search_of(search_text[p]))
       IN  IF clean_exact_matches # <<>>
           THEN /\ rectangles' = [rectangles EXCEPT ![p] = @ \o CleanRectangles(clean_exact_matches)]
                /\ printed' = [printed EXCEPT ![p] = "clean"]
                /\ pc' = [pc EXCEPT ![p] = "return"]
           ELSE /\ pc' = [pc EXCEPT ![p] = "tier3"]
                /\ UNCHANGED <<rectangles, printed>>
    /\ UNCHANGED <<doc, doc_open, n_close, search_text, page_num, similarity_threshold,
                   chunks, ci, n_fuzzy, result>>

\* clean_exact_matches = page.search_for(clean_search); if clean_exact_matches: ...
Tier2(p) ==
    /\ pc[p] = "tier2"
    /\ searched' = [searched EXCEPT ![p] = Append(@, clean_search_of(search_text[p]))]
    /\ LET clean_exact_matches == search_for(page_of(p), clean_search_of(search_text[p]))
       IN  IF clean_exact_matches # <<>>
           THEN /\ rectangles' = [rectangles EXCEPT ![p] = @ \o CleanRectangles(clean_exact_matches)]
                /\ printed' = [printed EXCEPT ![p] = "clean"]
                /\ pc' = [pc EXCEPT ![p] = "close"]
           ELSE /\ pc' = [pc EXCEPT ![p] = "tier3"]
                /\ UNCHANGED <<rectangles, printed>>
    /\ UNCHANGED <<doc, doc_open, n_close, search_text, page_num, similarity_threshold,
                   chunks, ci, n_fuzzy, result>>

\* if len(search_text.split()) > 3: words = ...; chunks = [...]
Tier3(p) ==
    /\ pc[p] = "tier3"
    /\ IF has_chunks(search_text[p])
       THEN /\ chunks' = [chunks EXCEPT ![p] = make_chunks(search_text[p])]
            /\ ci' = [ci EXCEPT ![p] = 1]
            /\ pc' = [pc EXCEPT ![p] = "chunk"]
       ELSE /\ pc' = [pc EXCEPT ![p] = "tier4"]
            /\ UNCHANGED <<chunks, ci>>
    /\ UNCHANGED <<doc, doc_open, n_close, search_text, page_num, similarity_threshold,
                   rectangles, searched, n_fuzzy, printed, result>>

\* Mutation of the chunk loop: the first candidate that gives nothing ends it.
after_chunk_Stop(i, n) == "tier4"

\* Where the chunk loop goes after a candidate that gave nothing.
after_chunk(i, n) == IF i < n THEN "chunk" ELSE "tier4"

\* for chunk in chunks: if len(chunk.strip()) > 3: chunk_matches = page.search_for(chunk) ...
Chunk(p) ==
    /\ pc[p] = "chunk"
    /\ LET chunk == chunks[p][ci[p]]
           chunk_matches == search_for(page_of(p), chunk)
       IN  IF ~chunk_is_tried(chunk)
           THEN /\ pc' = [pc EXCEPT ![p] = after_chunk(ci[p], Len(chunks[p]))]
                /\ ci' = [ci EXCEPT ![p] = @ + 1]
                /\ UNCHANGED <<rectangles, searched, printed>>
           ELSE /\ searched' = [searched EXCEPT ![p] = Append(@, chunk)]
                /\ IF chunk_matches # <<>>
                   THEN /\ rectangles' = [rectangles EXCEPT ![p] = @ \o ChunkRectangles(chunk_matches)]
                        /\ printed' = [printed EXCEPT ![p] = "chunk"]
                        /\ pc' = [pc EXCEPT ![p] = "close"]
                        /\ UNCHANGED ci
                   ELSE /\ pc' = [pc EXCEPT ![p] = after_chunk(ci[p], Len(chunks[p]))]
                        /\ ci' = [ci EXCEPT ![p] = @ + 1]
                        /\ UNCHANGED <<rectangles, printed>>
    /\ UNCHANGED <<doc, doc_open, n_close, search_text, page_num, similarity_threshold,
                   chunks, n_fuzzy, result>>

\* rectangles = self._fuzzy_line_search(page, search_text, similarity_threshold)
Tier4(p) ==
    /\ pc[p] = "tier4"
    /\ n_fuzzy' = [n_fuzzy EXCEPT ![p] = @ + 1]
    /\ LET found == fuzzy_line_search(page_of(p), search_text[p], similarity_threshold[p])
       IN  /\ rectangles' = [rectangles EXCEPT ![p] = found]
           /\ printed' = [printed EXCEPT ![p] = IF found # <<>> THEN "fuzzy" ELSE "none"]
    /\ pc' = [pc EXCEPT ![p] = "close"]
    /\ UNCHANGED <<doc, doc_open, n_close, search_text, page_num, similarity_threshold,
                   chunks, ci, searched, result>>

\* doc.close()
Close(p) ==
    /\ pc[p] = "close"
    /\ doc_open' = [doc_open EXCEPT ![p] = FALSE]
    /\ n_close' = [n_close EXCEPT ![p] = @ + 1]
    /\ pc' = [pc EXCEPT ![p] = "return"]
    /\ UNCHANGED <<doc, search_text, page_num, similarity_threshold, rectangles,
                   chunks, ci, searched, n_fuzzy, printed, result>>

\* return rectangles
Return(p) ==
    /\ pc[p] = "return"
    /\ result' = [result EXCEPT ![p] = rectangles[p]]
    /\ pc' = [pc EXCEPT ![p] = "done"]
    /\ UNCHANGED <<doc, doc_open, n_close, search_text, page_num, similarity_threshold,
                   rectangles, chunks, ci, searched, n_fuzzy, printed>>

-----------------------------------------------------------------------------
(* The calls: find_text_coordinates, one action per step *)

\* Rectangle(x=rect.x0, y=rect.y0, width=rect.x1 - rect.x0, height=rect.y1 - rect.y0)
RawRectangle(rect) ==
    Rectangle(rect.x0 * Unit, rect.y0 * Unit,
              (rect.x1 - rect.x0) * Unit, (rect.y1 - rect.y0) * Unit)

\* for rect in text_instances: rectangles.append(...)
RawRectangles(text_instances) ==
    [i \in 1..Len(text_instances) |-> RawRectangle(text_instances[i])]

\* def find_text_coordinates(self, pdf_path, search_text, page_num):
\*     doc = fitz.open(pdf_path); rectangles = []
CoordinatesCall(p, a) ==
    /\ pc[p] = "idle"
    /\ pc' = [pc EXCEPT ![p] = "coord_guard"]
    /\ doc' = [doc EXCEPT ![p] = a.pdf_path]
    /\ doc_open' = [doc_open EXCEPT ![p] = TRUE]
    /\ search_text' = [search_text EXCEPT ![p] = a.search_text]
    /\ page_num' = [page_num EXCEPT ![p] = a.page_num]
    /\ rectangles' = [rectangles EXCEPT ![p] = <<>>]
    /\ chunks' = [chunks EXCEPT ![p] = <<>>]
    /\ ci' = [ci EXCEPT ![p] = 0]
    /\ searched' = [searched EXCEPT ![p] = <<>>]
    /\ n_fuzzy' = [n_fuzzy EXCEPT ![p] = 0]
    /\ n_close' = [n_close EXCEPT ![p] = 0]
    /\ printed' = [printed EXCEPT ![p] = ""]
    /\ UNCHANGED <<similarity_threshold, result>>

\* if page_num <= len(doc): page = doc[page_num - 1]
CoordinatesGuard(p) ==
    /\ pc[p] = "coord_guard"
    /\ IF page_in_range(page_num[p], doc[p].len)
       THEN \E o \in getitem(doc[p].len, page_num[p] - 1) :
                pc' = [pc EXCEPT ![p] = IF o = "page" THEN "coord_search" ELSE "raised"]
       ELSE pc' = [pc EXCEPT ![p] = "coord_close"]
    /\ UNCHANGED <<doc, doc_open, n_close, search_text, page_num, similarity_threshold,
                   rectangles, chunks, ci, searched, n_fuzzy, printed, result>>

\* text_instances = page.search_for(search_text); for rect in text_instances: ...
CoordinatesSearch(p) ==
    /\ pc[p] = "coord_search"
    /\ searched' = [searched EXCEPT ![p] = Append(@, search_text[p])]
    /\ LET text_instances == search_for(page_of(p), search_text[p])
       IN  rectangles' = [rectangles EXCEPT ![p] = @ \o RawRectangles(text_instances)]
    /\ pc' = [pc EXCEPT ![p] = "coord_close"]
    /\ UNCHANGED <<doc, doc_open, n_close, search_text, page_num, similarity_threshold,
                   chunks, ci, n_fuzzy, printed, result>>

\* doc.close()
CoordinatesClose(p) ==
    /\ pc[p] = "coord_close"
    /\ doc_open' = [doc_open EXCEPT ![p] = FALSE]
    /\ n_close' = [n_close EXCEPT ![p] = @ + 1]
    /\ pc' = [pc EXCEPT ![p] = "coord_return"]
    /\ UNCHANGED <<doc, search_text, page_num, similarity_threshold, rectangles,
                   chunks, ci, searched, n_fuzzy, printed, result>>

\* return rectangles
CoordinatesReturn(p) ==
    /\ pc[p] = "coord_return"
    /\ result' = [result EXCEPT ![p] = rectangles[p]]
    /\ pc' = [pc EXCEPT ![p] = "coord_done"]
    /\ UNCHANGED <<doc, doc_open, n_close, search_text, page_num, similarity_threshold,
                   rectangles, chunks, ci, searched, n_fuzzy, printed>>

-----------------------------------------------------------------------------
(* The inputs the calls are made with *)

Args(pdf, text, n, threshold) ==
    [pdf_path |-> pdf, search_text |-> text, page_num |-> n,
     similarity_threshold |-> threshold]

\* A document: its page count, and of the page addressed the answers of the
\* search primitive and the layout (blocks, lines, spans).
Document(len, found, blocks) == [len |-> len, found |-> found, blocks |-> blocks]

NoDocument == Document(0, <<>>, <<>>)

\* similarity_threshold: float = 0.9
DefaultThreshold == Frac(9, 10)

Thresholds ==
    {Frac(0 - 1, 10), Frac(0, 1), Frac(2, 5), Frac(1, 2), Frac(9, 10), Frac(1, 1), Frac(3, 2)}

Raw(x0, y0, x1, y1) == [x0 |-> x0, y0 |-> y0, x1 |-> x1, y1 |-> y1]

\* Raw rectangles the search primitive reports: small and large boxes, at the
\* page origin and away from it.
HitPool ==
    << Raw(0, 0, 10, 5),       Raw(50, 100, 250, 120), Raw(1, 0, 3, 300),
       Raw(72, 100, 380, 112), Raw(2, 30, 102, 40),    Raw(0, 4, 150, 264),
       Raw(60, 0, 60, 0),      Raw(1, 1, 2, 2),        Raw(5, 5, 6, 6) >>

\* The answer with k instances.
Hits(k) == SubSeq(HitPool, k, 2 * k - 1)

HitLists == {Hits(k) : k \in 0..MaxHits}

LineSpan1 ==
    <<"T","h","e"," ","C","o","m","p","a","n","y"," ","s","h","a","l","l"," ">>

LineSpan2 ==
    <<"i","n","d","e","m","n","i","f","y"," ","t","h","e"," ","C","l","i","e","n","t"," ","a","g","a","i","n","s","t"," ","a","l","l"," ","c","l","a","i","m","s",".">>

Span(text, bbox) == [text |-> text, bbox |-> bbox]

Line(spans) == [spans |-> spans]

TextBlock(lines) == [lines |-> lines]

ImageBlock == [image |-> TRUE]

\* "The Company shall indemnify the Client against all claims." in two spans
ScenarioLine ==
    Line(<< Span(LineSpan1, <<72, 100, 160, 112>>), Span(LineSpan2, <<160, 101, 380, 113>>) >>)

ScenarioPage == << ImageBlock, TextBlock(<< ScenarioLine >>) >>

Alphabet ==
    <<"a"," ","b"," ","c"," ","d"," ","e"," ","f"," ","g"," ","h"," ","i"," ","j"," ","k"," ","l"," ","m"," ","n"," ","o"," ","p"," ","q"," ","r"," ","s"," ","t"," ","u"," ","v"," ","w"," ","x"," ","y"," ","z">>

\* The query of the first n letters, as n one-letter words: "a b c ..."
Letters(n) == IF n = 0 THEN <<>> ELSE SubSeq(Alphabet, 1, 2 * n - 1)

\* The same letters in upper case, as one line of the page.
UpperLine(n, y) ==
    Line(<< Span([i \in 1..(2 * n - 1) |->
                     IF Alphabet[i] = " " THEN " " ELSE UpperCase[(i + 1) \div 2]],
                 <<10, y, 10 + 12 * n, y + 10>>) >>)

UpperPage(n) == << TextBlock(<< UpperLine(n, 20) >>) >>

ScenarioQuery ==
    <<"T","h","e"," ","C","o","m","p","a","n","y"," ","s","h","a","l","l"," ","i","n","d","e","m","n","i","f","y"," ","t","h","e"," ","C","l","i","e","n","t"," ","a","g","a","i","n","s","t"," ","a","l","l"," ","c","l","a","i","m","s",".">>

DoubleSpaceQuery ==
    <<"T","h","e"," ","C","o","m","p","a","n","y"," "," ","s","h","a","l","l"," ","i","n","d","e","m","n","i","f","y"," ","t","h","e"," ","C","l","i","e","n","t"," ","a","g","a","i","n","s","t"," ","a","l","l"," ","c","l","a","i","m","s",".">>

TenWordQuery ==
    <<"T","h","e"," ","C","o","m","p","a","n","y"," ","s","h","a","l","l"," ","i","n","d","e","m","n","i","f","y"," ","t","h","e"," ","C","l","i","e","n","t"," ","f","o","o"," ","b","a","r"," ","b","a","z"," ","q","u","x">>

ParaphraseQuery ==
    <<"C","o","m","p","a","n","y"," ","m","u","s","t"," ","i","n","d","e","m","n","i","f","y"," ","C","l","i","e","n","t"," ","f","o","r"," ","c","l","a","i","m","s">>

LowerCaseQuery ==
    <<"t","h","e"," ","c","o","m","p","a","n","y"," ","s","h","a","l","l"," ","i","n","d","e","m","n","i","f","y"," ","t","h","e"," ","c","l","i","e","n","t"," ","a","g","a","i","n","s","t"," ","a","l","l"," ","c","l","a","i","m","s",".">>

AbsentQuery ==
    <<"z","z","z","z","_","n","o","t","_","p","r","e","s","e","n","t","_","a","n","y","w","h","e","r","e">>

\* Queries with whitespace that normalization changes.
SpacedQueries ==
    { <<"a", " ", " ", "b">>,
      <<"\t">> \o Letters(5) \o <<" ">>,
      DoubleSpaceQuery }

\* The strings a call with this query may pass to the search primitive.
Needles(text) ==
    {text, clean_search_of(text)}
    \cup (IF has_chunks(text)
          THEN {c \in ToSet(make_chunks(text)) : chunk_is_tried(c)}
          ELSE {})

\* Cascade family: every answer table of the primitive over the needles of
\* the query, on the scenario page, with the default threshold.
CascadeQueries ==
    {Letters(n) : n \in 0..MaxWords} \cup SpacedQueries \cup {ScenarioQuery, TenWordQuery}

CascadeInputs ==
    UNION {{Args(Document(1, f, ScenarioPage), q, 1, DefaultThreshold) :
                f \in [Needles(q) -> HitLists]} : q \in CascadeQueries}

\* Fuzzy family: the primitive finds nothing; layouts and thresholds vary.
\* "b a c d e f g h i j z": ten of the first letters, two of them swapped,
\* and a word that is on no page.
SwappedQuery == <<"b", " ", "a">> \o SubSeq(Alphabet, 4, 19) \o <<" ", "z">>

\* "a z z": a word of the page and, twice, a word that is on no page.
RepeatedWordQuery == <<"a", " ", "z", " ", "z">>

\* "shall-indemnify": one word that contains two words of the scenario line.
TwoInOneWord == <<"s","h","a","l","l","-","i","n","d","e","m","n","i","f","y">>

\* "Company-shall-indemnify": one word that contains three of them.
ThreeInOneWord == <<"C","o","m","p","a","n","y","-">> \o TwoInOneWord

\* Queries whose words contain words of the scenario line: "shall-indemnify
\* foo", "Company-shall-indemnify", and "them foo" ("them" contains "the").
CompoundQueries ==
    { TwoInOneWord \o <<" ", "f", "o", "o">>,
      ThreeInOneWord,
      <<"t", "h", "e", "m", " ", "f", "o", "o">> }

FuzzyQueries ==
    {ParaphraseQuery, LowerCaseQuery, AbsentQuery, <<>>, Letters(2), Letters(3),
     Letters(9), Letters(10), Letters(11), SwappedQuery, RepeatedWordQuery,
     <<"x", " ", "y">>}
    \cup CompoundQueries

\* Four lines in two text blocks around an image block; the second and the
\* third line have the same text.
TiePage ==
    << TextBlock(<< UpperLine(9, 20), UpperLine(10, 40) >>),
       ImageBlock,
       TextBlock(<< UpperLine(10, 60), UpperLine(12, 80) >>) >>

\* A line "x y" with a box that begins above and left of the page and covers
\* it, then the line "A B C" in two spans at the left edge, neither of which
\* holds all four extremes.
EdgeLine ==
    Line(<< Span(<<"A", " ">>, <<1, 50, 30, 62>>),
            Span(<<"B", " ", "C">>, <<30, 48, 90, 60>>) >>)

EdgePage ==
    << TextBlock(<< Line(<< Span(<<"x", " ", "y">>, <<0 - 3, 0 - 5, 500, 700>>) >>), EdgeLine >>) >>

FuzzyPages ==
    {<<>>, ScenarioPage, UpperPage(1), UpperPage(9), UpperPage(10), UpperPage(12),
     TiePage, EdgePage}

FuzzyInputs ==
    {Args(Document(1, <<>>, b), q, 1, t) : b \in FuzzyPages, q \in FuzzyQueries, t \in Thresholds}

\* Rectangle family: one instance with coordinates from a grid, found by
\* Tier 1, by Tier 2 only, or by the first chunk of Tier 3 only.
GridRects ==
    {Raw(x0, y0, x0 + w, y0 + h) :
        x0 \in {0, 1, 2, 60}, y0 \in {0, 4, 30}, w \in {0, 50, 100, 150}, h \in {0, 10, 20, 260, 300}}

GridTargets ==
    { <<Letters(1), Letters(1)>>,
      <<<<" ">> \o Letters(1), Letters(1)>>,
      <<Letters(6), Letters(3)>> }

GridInputs ==
    {Args(Document(1, [s \in {qt[2]} |-> <<r>>], ScenarioPage), qt[1], 1, DefaultThreshold) :
        qt \in GridTargets, r \in GridRects}

\* Page family: page numbers around the range of the document.
PageInputs ==
    {Args(Document(len, f, ScenarioPage), Letters(1), n, DefaultThreshold) :
        len \in 0..MaxPages, n \in 0..(MaxPages + 1),
        f \in [{Letters(1)} -> HitLists]}

\* Repeat family: the primitive reports the same box for two instances.
RepeatInputs ==
    {Args(Document(1, [s \in {Letters(1)} |-> <<r, r>>], ScenarioPage),
          Letters(1), 1, DefaultThreshold) : r \in {Raw(5, 5, 6, 6), Raw(0, 0, 10, 5)}}

\* Skip family: the page holds the first two words of the query, "a b".
SkipInputs ==
    {Args(Document(1, [s \in {Letters(2)} |-> Hits(1)], ScenarioPage),
          Letters(n), 1, DefaultThreshold) : n \in 4..5}

Inputs ==
    CascadeInputs \cup FuzzyInputs \cup GridInputs \cup PageInputs \cup RepeatInputs
    \cup SkipInputs

-----------------------------------------------------------------------------
(* Specifications *)

Init ==
    /\ pc = [p \in Procs |-> "idle"]
    /\ doc = [p \in Procs |-> NoDocument]
    /\ doc_open = [p \in Procs |-> FALSE]
    /\ n_close = [p \in Procs |-> 0]
    /\ search_text = [p \in Procs |-> <<>>]
    /\ page_num = [p \in Procs |-> 0]
    /\ similarity_threshold = [p \in Procs |-> DefaultThreshold]
    /\ rectangles = [p \in Procs |-> <<>>]
    /\ chunks = [p \in Procs |-> <<>>]
    /\ ci = [p \in Procs |-> 0]
    /\ searched = [p \in Procs |-> <<>>]
    /\ n_fuzzy = [p \in Procs |-> 0]
    /\ printed = [p \in Procs |-> ""]
    /\ result = [p \in Procs |-> <<>>]
    /\ upload_pc = "idle"
    /\ highlights = <<>>
    /\ highlight_index = 0
    /\ processed_highlights = <<>>

\* One step of call p, whose arguments come from the set I.
Step(p, I) ==
    \/ pc[p] = "idle" /\ \E a \in I : Call(p, a)
    \/ Guard(p)
    \/ Tier1(p)
    \/ Tier2(p)
    \/ Tier3(p)
    \/ Chunk(p)
    \/ Tier4(p)
    \/ Close(p)
    \/ Return(p)

\* A single call.
Next == Step("c1", Inputs) /\ UNCHANGED upload_vars

Spec == Init /\ [][Next]_vars

\* Two calls on the same documents, in any interleaving: a query with a double
\* space and its normalization against every answer of the primitive for the
\* two, and a four-word query that nothing but the fuzzy search can match.
PairQueries == {<<"a", " ", " ", "b">>, <<"a", " ", "b">>}

PairDocuments ==
    {Document(1, f, ScenarioPage) : f \in [PairQueries -> HitLists]}

PairInputs ==
    {Args(d, q, 1, DefaultThreshold) : d \in PairDocuments, q \in PairQueries}
    \cup {Args(Document(1, <<>>, ScenarioPage), Letters(4), 1, DefaultThreshold)}

NextPair == (\E p \in Procs : Step(p, PairInputs)) /\ UNCHANGED upload_vars

SpecPair == Init /\ [][NextPair]_vars

\* One step of call p of find_text_coordinates, whose arguments come from I
\* (the threshold of the arguments is not passed).
CoordinatesStep(p, I) ==
    \/ pc[p] = "idle" /\ \E a \in I : CoordinatesCall(p, a)
    \/ CoordinatesGuard(p)
    \/ CoordinatesSearch(p)
    \/ CoordinatesClose(p)
    \/ CoordinatesReturn(p)

\* Page numbers around the range of the document, and two queries long enough
\* for the chunk loop.
GuardInputs == PageInputs \cup SkipInputs

\* A call of find_text_fuzzy and a call of find_text_coordinates, in any
\* interleaving.
NextGuard ==
    (Step("c1", GuardInputs) \/ CoordinatesStep("c2", PageInputs))
    /\ UNCHANGED upload_vars

SpecGuard == Init /\ [][NextGuard]_vars

-----------------------------------------------------------------------------
(* The upload handler: the loop that finds the coordinates of the highlights *)

\* A highlight of the analysis: highlight_data["text_to_highlight"] and
\* highlight_data["page"].
Highlight(text, page) == [text_to_highlight |-> text, page |-> page]

\* The uploaded file: one page that holds "a" twice and "a b" once.
UploadDocument ==
    Document(1,
             [s \in {Letters(1), Letters(2)} |->
                 IF s = Letters(1) THEN Hits(2) ELSE Hits(1)],
             ScenarioPage)

\* Highlights found by Tier 1 with two rectangles, found by Tier 2, found by
\* no tier, and on a page the file does not have.
HighlightKinds ==
    { Highlight(Letters(1), 1),
      Highlight(<<"a", " ", " ", "b">>, 1),
      Highlight(Letters(4), 1),
      Highlight(Letters(1), 2) }

HighlightLists == UNION {[1..n -> HighlightKinds] : n \in 0..MaxHighlights}

\* if rectangles:
found_coordinates(rects) == rects # <<>>

\* Mutation of first_rectangle: the last rectangle of the list is used.
first_rectangle_Last(rects) == rects[Len(rects)]

\* rect = rectangles[0]
first_rectangle(rects) == rects[1]

\* highlight_data["rect"] = {"x": rect.x, "y": rect.y, "width": ..., "height": ...}
with_rect(highlight_data, rect) ==
    [text_to_highlight |-> highlight_data.text_to_highlight,
     page |-> highlight_data.page,
     rect |-> [x |-> rect.x, y |-> rect.y, width |-> rect.width, height |-> rect.height]]

\* processed_highlights = []; for highlight_data in analysis_data.get("highlights", []):
ProcessHighlights(hs) ==
    /\ upload_pc = "idle"
    /\ highlights' = hs
    /\ processed_highlights' = <<>>
    /\ highlight_index' = 1
    /\ upload_pc' = "loop"
    /\ UNCHANGED <<pc, doc, doc_open, n_close, search_text, page_num, similarity_threshold,
                   rectangles, chunks, ci, searched, n_fuzzy, printed, result>>

\* rectangles = pdf_processor.find_text_fuzzy(file_path, text_to_highlight, page_num)
HighlightCall ==
    /\ upload_pc = "loop"
    /\ highlight_index <= Len(highlights)
    /\ Call("c1", Args(UploadDocument,
                       highlights[highlight_index].text_to_highlight,
                       highlights[highlight_index].page,
                       DefaultThreshold))
    /\ upload_pc' = "call"
    /\ UNCHANGED <<highlights, highlight_index, processed_highlights>>

\* The steps of the call the handler waits for.
HighlightCallStep ==
    /\ upload_pc = "call"
    /\ \/ Guard("c1")
       \/ Tier1("c1")
       \/ Tier2("c1")
       \/ Tier3("c1")
       \/ Chunk("c1")
       \/ Tier4("c1")
       \/ Close("c1")
       \/ Return("c1")
    /\ UNCHANGED upload_vars

\* if rectangles: rect = rectangles[0]; highlight_data["rect"] = {...};
\*     processed_highlights.append(highlight_data)
\* else: the highlight is skipped
HighlightResult ==
    /\ upload_pc = "call"
    /\ pc["c1"] = "done"
    /\ IF found_coordinates(result["c1"])
       THEN processed_highlights' =
                Append(processed_highlights,
                       with_rect(highlights[highlight_index], first_rectangle(result["c1"])))
       ELSE UNCHANGED processed_highlights
    /\ highlight_index' = highlight_index + 1
    /\ upload_pc' = "loop"
    /\ pc' = [pc EXCEPT !["c1"] = "idle"]
    /\ UNCHANGED <<highlights, doc, doc_open, n_close, search_text, page_num,
                   similarity_threshold, rectangles, chunks, ci, searched, n_fuzzy,
                   printed, result>>

\* analysis_result = {"highlights": processed_highlights, ...}
StoreAnalysis ==
    /\ upload_pc = "loop"
    /\ highlight_index > Len(highlights)
    /\ upload_pc' = "stored"
    /\ UNCHANGED <<highlights, highlight_index, processed_highlights,
                   pc, doc, doc_open, n_close, search_text, page_num, similarity_threshold,
                   rectangles, chunks, ci, searched, n_fuzzy, printed, result>>

NextUpload ==
    \/ \E hs \in HighlightLists : ProcessHighlights(hs)
    \/ HighlightCall
    \/ HighlightCallStep
    \/ HighlightResult
    \/ StoreAnalysis

SpecUpload == Init /\ [][NextUpload]_vars

-----------------------------------------------------------------------------
(* Observations the properties are stated with *)

\* The call has returned.
Done(p) == pc[p] = "done"

\* The call got past the page guard and loaded its page.
Loaded(p) == pc[p] \notin {"idle", "guard", "raised"} /\ page_num[p] <= doc[p].len

\* What the search primitive answers on the page of call p.
Matches(p, needle) == search_for(doc[p], needle)

\* The lines of the page of call p, in scan order.
LinesOf(p) == page_lines(doc[p].blocks)

\* The score of line k of the page against the query of call p.
ScoreOf(p, k) == line_score(LinesOf(p)[k], search_text[p])

\* The output of each tier taken alone, on the page and query of call p.
Tier1Output(p) == ExactRectangles(Matches(p, search_text[p]))

Tier2Output(p) == CleanRectangles(Matches(p, clean_search_of(search_text[p])))

\* The candidates of Tier 3 that are searched and found.
FoundChunks(p) ==
    IF has_chunks(search_text[p])
    THEN {i \in 1..4 : /\ chunk_is_tried(make_chunks(search_text[p])[i])
                       /\ Matches(p, make_chunks(search_text[p])[i]) # <<>>}
    ELSE {}

Tier3Output(p) ==
    IF FoundChunks(p) = {} THEN <<>>
    ELSE ChunkRectangles(Matches(p, make_chunks(search_text[p])[SetMin(FoundChunks(p))]))

Tier4Output(p) == fuzzy_line_search(doc[p], search_text[p], similarity_threshold[p])

\* Tiers 1 to 3 find nothing for call p.
ExactTiersEmpty(p) ==
    Tier1Output(p) = <<>> /\ Tier2Output(p) = <<>> /\ Tier3Output(p) = <<>>

-----------------------------------------------------------------------------
(* C1 *)

\* C1: a call that loaded its page returns the output of the first tier, in
\* the order ExactRaw, ExactNormalized, PartialChunk, FuzzyLine, whose output
\* is non-empty, and the empty list when all four are empty; no later tier
\* replaces or extends an earlier non-empty output.
C1_FirstNonEmptyTier ==
    \A p \in Procs :
        Done(p) /\ Loaded(p) =>
            result[p] =
                IF Tier1Output(p) # <<>> THEN Tier1Output(p)
                ELSE IF Tier2Output(p) # <<>> THEN Tier2Output(p)
                ELSE IF Tier3Output(p) # <<>> THEN Tier3Output(p)
                ELSE Tier4Output(p)

\* A call returned the Tier-2 output although a chunk of Tier 3 would have
\* been found as well, with a different answer.
C1_Witness ==
    \E p \in Procs :
        /\ Done(p) /\ Loaded(p)
        /\ Tier1Output(p) = <<>>
        /\ Tier2Output(p) # <<>>
        /\ Tier3Output(p) # <<>>
        /\ Tier3Output(p) # Tier2Output(p)
        /\ result[p] = Tier2Output(p)

-----------------------------------------------------------------------------
(* C2 *)

\* C2: when the exact search for the raw query finds something, the call
\* returns exactly the Tier-1 rectangles, and at no point of the call is the
\* primitive invoked with anything but the raw query, once, nor is the fuzzy
\* line scan invoked.
C2_ExactnessPrecedence ==
    \A p \in Procs :
        Loaded(p) /\ Matches(p, search_text[p]) # <<>> =>
            /\ searched[p] \in {<<>>, <<search_text[p]>>}
            /\ n_fuzzy[p] = 0
            /\ Done(p) => /\ result[p] = Tier1Output(p)
                          /\ searched[p] = <<search_text[p]>>

\* A call returned on Tier 1 for a query that normalization changes and
\* whose normalized form the page holds too.
C2_Witness ==
    \E p \in Procs :
        /\ Done(p) /\ Loaded(p)
        /\ Matches(p, search_text[p]) # <<>>
        /\ clean_search_of(search_text[p]) # search_text[p]
        /\ Matches(p, clean_search_of(search_text[p])) # <<>>
        /\ Len(result[p]) = 2

-----------------------------------------------------------------------------
(* C3 *)

\* No line of the page of call p scores above the threshold of the call.
NoLineAboveThreshold(p) ==
    \A k \in 1..Len(LinesOf(p)) : ~FracGt(ScoreOf(p, k), similarity_threshold[p])

\* C3: a call for a page of the document (page_num >= 1) never raises; when
\* the primitive finds nothing for the query, its normalization and its chunks
\* and no line scores above the threshold, the call returns the empty list.
C3_NoMatchIsEmptyList ==
    \A p \in Procs :
        /\ page_num[p] >= 1 => pc[p] # "raised"
        /\ Done(p) /\ Loaded(p) /\ ExactTiersEmpty(p) /\ NoLineAboveThreshold(p) =>
                result[p] = <<>> /\ printed[p] = "none"

\* The query that is nowhere on the scenario page came back empty.
C3_Witness ==
    \E p \in Procs :
        /\ Done(p) /\ Loaded(p)
        /\ search_text[p] = AbsentQuery
        /\ doc[p].blocks = ScenarioPage
        /\ n_fuzzy[p] = 1
        /\ result[p] = <<>>

-----------------------------------------------------------------------------
(* C4 *)

\* C4 as claimed: a result produced by Tier 2, Tier 3 or Tier 4 has at most
\* one rectangle.
C4_Original ==
    \A p \in Procs :
        Done(p) /\ printed[p] \in {"clean", "chunk", "fuzzy"} => Len(result[p]) <= 1

\* C4, amended: only a Tier-4 result is limited to one rectangle; a Tier-2 or
\* Tier-3 result has one rectangle per instance the primitive reports for the
\* normalized query or for the winning chunk.
C4_OnlyFuzzyIsSingle ==
    \A p \in Procs :
        Done(p) =>
            /\ printed[p] = "fuzzy" => Len(result[p]) = 1
            /\ printed[p] = "clean" =>
                   Len(result[p]) = Len(Matches(p, clean_search_of(search_text[p])))
            /\ printed[p] = "chunk" =>
                   Len(result[p]) = Len(Matches(p, searched[p][Len(searched[p])]))

\* A Tier-3 result with two rectangles.
C4_Witness ==
    \E p \in Procs :
        Done(p) /\ printed[p] = "chunk" /\ Len(result[p]) = 2

-----------------------------------------------------------------------------
(* C5 *)

\* The rectangle Tier 4 builds for line k of the page of call p.
LineBox(p, k) == LineRectangle(line_rects_of(LinesOf(p)[k].spans))

\* Every rectangle Tier 4 returned belongs to a line scoring strictly above
\* the threshold (a score equal to the threshold does not match).
EqualDoesNotMatch(p) ==
    rectangles[p] # <<>> =>
        \E k \in 1..Len(LinesOf(p)) :
            /\ FracGt(ScoreOf(p, k), similarity_threshold[p])
            /\ rectangles[p] = <<LineBox(p, k)>>

\* C5 as claimed: for every threshold, a score equal to the threshold does not
\* match and a line scoring strictly above the threshold makes Tier 4 return
\* a rectangle.
C5_Original ==
    \A p \in Procs :
        n_fuzzy[p] = 1 =>
            /\ EqualDoesNotMatch(p)
            /\ (\E k \in 1..Len(LinesOf(p)) :
                    FracGt(ScoreOf(p, k), similarity_threshold[p]))
                => rectangles[p] # <<>>

\* C5, amended: a score equal to the threshold does not match; a line scoring
\* strictly above the threshold and above 0 makes Tier 4 return a rectangle.
C5_ThresholdBoundary ==
    \A p \in Procs :
        n_fuzzy[p] = 1 =>
            /\ EqualDoesNotMatch(p)
            /\ (\E k \in 1..Len(LinesOf(p)) :
                    /\ FracGt(ScoreOf(p, k), similarity_threshold[p])
                    /\ FracGt(ScoreOf(p, k), Frac(0, 1)))
                => rectangles[p] # <<>>

\* Tier 4 ran on a line whose score equals the threshold, and found nothing.
C5_Witness ==
    \E p \in Procs :
        /\ n_fuzzy[p] = 1
        /\ Len(LinesOf(p)) = 1
        /\ FracEq(ScoreOf(p, 1), similarity_threshold[p])
        /\ FracGt(ScoreOf(p, 1), Frac(0, 1))
        /\ rectangles[p] = <<>>

-----------------------------------------------------------------------------
(* C6 *)

\* Tiers 1 and 2 find nothing and, of the four candidates, only the last one
\* (the last 6 words) is found.
OnlyLastSixFound(p) ==
    /\ Len(split(search_text[p])) >= 4
    /\ Matches(p, search_text[p]) = <<>>
    /\ Matches(p, clean_search_of(search_text[p])) = <<>>
    /\ Matches(p, make_chunks(search_text[p])[4]) # <<>>
    /\ \A i \in 1..3 : Matches(p, make_chunks(search_text[p])[i]) = <<>>

\* C6: then the call returns exactly the rectangles of the last-6-words chunk,
\* and Tier 4 is not run.
C6_ChunkFallbackOrder ==
    \A p \in Procs :
        Done(p) /\ Loaded(p) /\ OnlyLastSixFound(p) =>
            /\ result[p] = ChunkRectangles(Matches(p, make_chunks(search_text[p])[4]))
            /\ n_fuzzy[p] = 0

\* A 13-word query of which only the last 6 words are on the page.
C6_Witness ==
    \E p \in Procs :
        /\ Done(p) /\ Loaded(p) /\ OnlyLastSixFound(p)
        /\ search_text[p] = Letters(13)
        /\ result[p] # <<>>

-----------------------------------------------------------------------------
(* C7 *)

\* The primitive is a substring search: whenever it finds a string it finds
\* every string contained in it.
SubPhraseClosed(p) ==
    \A a \in DOMAIN doc[p].found : \A b \in DOMAIN doc[p].found :
        InStr(a, b) /\ doc[p].found[b] # <<>> => doc[p].found[a] # <<>>

\* "The Company shall indemnify the"
FirstFiveWords == SubSeq(TenWordQuery, 1, 31)

\* "The Company shall indemnify the Client"
FirstSixWords == SubSeq(TenWordQuery, 1, 38)

\* The 10-word query: the first 6 words are a phrase of the page, the 4
\* trailing words ("foo bar baz qux") are nowhere on it.
SixPlusFourScenario(p) ==
    /\ search_text[p] = TenWordQuery
    /\ Matches(p, FirstSixWords) # <<>>
    /\ SubPhraseClosed(p)
    /\ \A s \in DOMAIN doc[p].found :
           InStr(<<"f", "o", "o">>, s) => doc[p].found[s] = <<>>

\* C7 as claimed: the candidate that succeeds is the third one, the first 6
\* words, and the returned rectangles are its rectangles.
C7_Original ==
    \A p \in Procs :
        Done(p) /\ Loaded(p) /\ SixPlusFourScenario(p) =>
            /\ searched[p][Len(searched[p])] = FirstSixWords
            /\ result[p] = ChunkRectangles(Matches(p, FirstSixWords))

\* C7, amended: Tiers 1 and 2 fail and the candidate that succeeds is the
\* first one, the first half (the first 5 words); the returned rectangles are
\* its rectangles and the first-6-words candidate is never searched.
C7_FirstHalfSucceeds ==
    \A p \in Procs :
        Done(p) /\ Loaded(p) /\ SixPlusFourScenario(p) =>
            /\ searched[p] = <<TenWordQuery, TenWordQuery, FirstFiveWords>>
            /\ printed[p] = "chunk"
            /\ result[p] = ChunkRectangles(Matches(p, FirstFiveWords))

\* The scenario ran, on a page where the two candidates have different
\* rectangles.
C7_Witness ==
    \E p \in Procs :
        /\ Done(p) /\ Loaded(p) /\ SixPlusFourScenario(p)
        /\ Matches(p, FirstFiveWords) # Matches(p, FirstSixWords)
        /\ result[p] # <<>>

-----------------------------------------------------------------------------
(* C8 *)

\* The words of a text as the fuzzy search sees them: lower-cased, split at
\* whitespace.
WordsOf(text) == split(clean_lower(text))

\* How many words of the query of call p are whole words of line k.
WordsOnLine(p, k) ==
    Cardinality({i \in 1..Len(WordsOf(search_text[p])) :
        InList(WordsOf(search_text[p])[i], WordsOf(line_text_of(LinesOf(p)[k].spans)))})

\* At least 90% of the words of the query are words of line k.
NinetyPercentOnLine(p, k) ==
    /\ Len(WordsOf(search_text[p])) > 0
    /\ 10 * WordsOnLine(p, k) >= 9 * Len(WordsOf(search_text[p]))

\* More than 90% of the words of the query are words of line k.
OverNinetyPercentOnLine(p, k) ==
    /\ Len(WordsOf(search_text[p])) > 0
    /\ 10 * WordsOnLine(p, k) > 9 * Len(WordsOf(search_text[p]))

\* The example of the claim: the paraphrase against the scenario line.
IsParaphraseExample(p, k) ==
    search_text[p] = ParaphraseQuery /\ LinesOf(p)[k] = ScenarioLine

\* The first line, in scan order, with the highest score.
BestLine(p) ==
    SetMin({k \in 1..Len(LinesOf(p)) :
        \A j \in 1..Len(LinesOf(p)) : ~FracGt(ScoreOf(p, j), ScoreOf(p, k))})

\* C8 as claimed: with the default threshold, when Tiers 1-3 find nothing and
\* the query paraphrases a line (the example, or any query with at least 90%
\* of its words on the line), the call returns the single rectangle of that
\* line's union bounding box.
C8_Original ==
    \A p \in Procs :
        Done(p) /\ Loaded(p) /\ ExactTiersEmpty(p)
                /\ similarity_threshold[p] = DefaultThreshold =>
            \A k \in 1..Len(LinesOf(p)) :
                IsParaphraseExample(p, k) \/ NinetyPercentOnLine(p, k) =>
                    result[p] = <<LineBox(p, k)>>

\* C8, amended: with the default threshold, when Tiers 1-3 find nothing and
\* more than 90% of the words of the query are whole words of a line, the call
\* returns the single rectangle of the union bounding box of the best-scoring
\* line; the example query has 3 of its 6 words on the line, scores 0.5 and
\* gets the empty list.
C8_ParaphraseNeedsMoreThanNinety ==
    \A p \in Procs :
        Done(p) /\ Loaded(p) /\ ExactTiersEmpty(p)
                /\ similarity_threshold[p] = DefaultThreshold =>
            \A k \in 1..Len(LinesOf(p)) :
                /\ OverNinetyPercentOnLine(p, k) => result[p] = <<LineBox(p, BestLine(p))>>
                /\ IsParaphraseExample(p, k) =>
                       /\ 2 * WordsOnLine(p, k) = Len(WordsOf(search_text[p]))
                       /\ FracEq(ScoreOf(p, k), Frac(1, 2))
                       /\ result[p] = <<>>

\* A query with 10 of its 11 words on the line, not a substring of it, got the
\* rectangle of the line.
C8_Witness ==
    \E p \in Procs :
        /\ Done(p) /\ Loaded(p) /\ ExactTiersEmpty(p)
        /\ similarity_threshold[p] = DefaultThreshold
        /\ Len(LinesOf(p)) = 1
        /\ OverNinetyPercentOnLine(p, 1)
        /\ ~FracEq(ScoreOf(p, 1), Frac(1, 1))
        /\ result[p] = <<LineBox(p, 1)>>

-----------------------------------------------------------------------------
(* C10 *)

\* The rectangle the Tier-1 formula gives for a raw match, in hundredths:
\* pad_x = max(2, 0.02 w), pad_y = max(1, 0.1 h), x = max(0, x0 - pad_x + 1.5),
\* y = max(0, y0 - pad_y + 25), width = w + 2 pad_x, height = h + 2 pad_y.
Tier1Formula(m) ==
    LET w == m.x1 - m.x0
        h == m.y1 - m.y0
        pad_x == IF 2 * w > 200 THEN 2 * w ELSE 200
        pad_y == IF 10 * h > 100 THEN 10 * h ELSE 100
        x == 100 * m.x0 - pad_x + 150
        y == 100 * m.y0 - pad_y + 2500
    IN  [x |-> IF x > 0 THEN x ELSE 0,
         y |-> IF y > 0 THEN y ELSE 0,
         width |-> 100 * w + 2 * pad_x,
         height |-> 100 * h + 2 * pad_y]

-----------------------------------------------------------------------------
(* C9 *)

\* Calls p and r ran on the same page with the same threshold, r with the
\* normalization of the query of p, and the primitive finds the query of p
\* only after normalization.
NormalizedPair(p, r) ==
    /\ Done(p) /\ Done(r) /\ Loaded(p) /\ Loaded(r)
    /\ doc[p] = doc[r]
    /\ similarity_threshold[p] = similarity_threshold[r]
    /\ search_text[r] = clean_search_of(search_text[p])
    /\ Matches(p, search_text[p]) = <<>>
    /\ Matches(p, clean_search_of(search_text[p])) # <<>>

\* The offsets between the Tier-1 and the Tier-2 formula, in hundredths:
\* x_offset 1.5 against none, y_offset 25 against 3.
OffsetX == (3 * Unit) \div 2

OffsetY == (25 - 3) * Unit

\* C9 as claimed: the two calls return the same number of rectangles, with
\* identical width and height and with positions that differ by exactly the
\* tier offset constants.
C9_Original ==
    \A p \in Procs : \A r \in Procs :
        NormalizedPair(p, r) =>
            /\ Len(result[p]) = Len(result[r])
            /\ \A i \in 1..Len(result[p]) :
                   /\ result[r][i].width = result[p][i].width
                   /\ result[r][i].height = result[p][i].height
                   /\ result[r][i].x - result[p][i].x = OffsetX
                   /\ result[r][i].y - result[p][i].y = OffsetY

\* C9, amended: the two calls return the same number of rectangles, with
\* identical width and height; the positions differ by at most the tier offset
\* constants, and by exactly them wherever the rectangle of locate(P, q) is
\* not clamped at 0.
C9_NormalizationIdempotence ==
    \A p \in Procs : \A r \in Procs :
        NormalizedPair(p, r) =>
            /\ Len(result[p]) = Len(result[r])
            /\ \A i \in 1..Len(result[p]) :
                   /\ result[r][i].width = result[p][i].width
                   /\ result[r][i].height = result[p][i].height
                   /\ result[r][i].x - result[p][i].x \in 0..OffsetX
                   /\ result[r][i].y - result[p][i].y \in 0..OffsetY
                   /\ result[p][i].x > 0 => result[r][i].x - result[p][i].x = OffsetX
                   /\ result[p][i].y > 0 => result[r][i].y - result[p][i].y = OffsetY

\* Both calls returned two rectangles for a query with a double space.
C9_Witness ==
    \E p \in Procs : \E r \in Procs :
        /\ NormalizedPair(p, r)
        /\ search_text[p] # search_text[r]
        /\ Len(result[p]) = 2
        /\ result[p][1].x > 0
        /\ result[p][2].x = 0

-----------------------------------------------------------------------------
(* C11 *)

\* C11: when the exact search for the raw query reports n >= 1 instances, the
\* call returns exactly n rectangles, the i-th one built from the i-th
\* instance: none is dropped, merged with an equal one or picked as the best.
C11_Tier1ReturnsAllMatches ==
    \A p \in Procs :
        Done(p) /\ Loaded(p) /\ Matches(p, search_text[p]) # <<>> =>
            /\ Len(result[p]) = Len(Matches(p, search_text[p]))
            /\ \A i \in 1..Len(Matches(p, search_text[p])) :
                   result[p][i] = ExactRectangle(Matches(p, search_text[p])[i])

\* Two different instances came back as two different rectangles, in the
\* order of the primitive.
C11_Witness ==
    \E p \in Procs :
        /\ Done(p) /\ Loaded(p)
        /\ Len(Matches(p, search_text[p])) = 2
        /\ Matches(p, search_text[p])[1] # Matches(p, search_text[p])[2]
        /\ Len(result[p]) = 2
        /\ result[p][1] = ExactRectangle(Matches(p, search_text[p])[1])
        /\ result[p][2] = ExactRectangle(Matches(p, search_text[p])[2])
        /\ result[p][1] # result[p][2]

-----------------------------------------------------------------------------
(* C12 *)

\* The query with every whitespace run collapsed to one space and no
\* whitespace at its ends: its words, joined by single spaces.
Normalized(text) == join(split(text))

\* The rectangle the Tier-2 formula gives for a raw match, in hundredths: the
\* paddings of Tier 1, x = max(0, x0 - pad_x), y = max(0, y0 - pad_y + 3).
Tier2Formula(m) ==
    LET w == m.x1 - m.x0
        h == m.y1 - m.y0
        pad_x == IF 2 * w > 200 THEN 2 * w ELSE 200
        pad_y == IF 10 * h > 100 THEN 10 * h ELSE 100
        x == 100 * m.x0 - pad_x
        y == 100 * m.y0 - pad_y + 300
    IN  [x |-> IF x > 0 THEN x ELSE 0,
         y |-> IF y > 0 THEN y ELSE 0,
         width |-> 100 * w + 2 * pad_x,
         height |-> 100 * h + 2 * pad_y]

\* C12: when Tier 1 finds nothing the primitive is invoked a second time, with
\* the normalized query; when that finds instances (as for a query that
\* differs from the text of the page by a double space only) the call returns
\* on Tier 2, one rectangle per instance, by the Tier-2 formula.
C12_Tier2NormalizedSearch ==
    \A p \in Procs :
        Loaded(p) /\ Matches(p, search_text[p]) = <<>> =>
            /\ Len(searched[p]) >= 2 => searched[p][2] = Normalized(search_text[p])
            /\ Done(p) => Len(searched[p]) >= 2
            /\ Done(p) /\ Matches(p, Normalized(search_text[p])) # <<>> =>
                   /\ printed[p] = "clean"
                   /\ Len(searched[p]) = 2
                   /\ Len(result[p]) = Len(Matches(p, Normalized(search_text[p])))
                   /\ \A i \in 1..Len(result[p]) :
                          result[p][i] = Tier2Formula(Matches(p, Normalized(search_text[p]))[i])

\* The query with the double space failed Tier 1 and came back from Tier 2
\* with the rectangles of the two instances of the sentence as the page has it.
C12_Witness ==
    \E p \in Procs :
        /\ Done(p) /\ Loaded(p)
        /\ search_text[p] = DoubleSpaceQuery
        /\ searched[p] = <<DoubleSpaceQuery, ScenarioQuery>>
        /\ Matches(p, DoubleSpaceQuery) = <<>>
        /\ Matches(p, ScenarioQuery) = <<Raw(50, 100, 250, 120), Raw(1, 0, 3, 300)>>
        /\ result[p] = << [x |-> 4600, y |-> 10100, width |-> 20800, height |-> 2400],
                          [x |-> 0, y |-> 0, width |-> 600, height |-> 36000] >>

-----------------------------------------------------------------------------
(* C13 *)

\* words[lo .. hi) of the text (0-based, hi excluded), joined by single spaces.
WordRange(text, lo, hi) ==
    join([i \in 1..(hi - lo) |-> split(text)[lo + i]])

\* The four candidates of a query of n words: words[0 .. n/2), words[n/2 .. n),
\* the first min(6, n) words and the last min(6, n) words.
Candidates(text) ==
    LET n == Len(split(text))
        six == IF n < 6 THEN n ELSE 6
    IN  << WordRange(text, 0, n \div 2),
           WordRange(text, n \div 2, n),
           WordRange(text, 0, six),
           WordRange(text, n - six, n) >>

\* The candidates that the skip rule of the chunk loop lets through, in order.
TriedCandidates(text) == SelectSeq(Candidates(text), chunk_is_tried)

\* The positions, among the tried candidates, of those the page of p holds.
CandidateHits(p) ==
    {i \in 1..Len(TriedCandidates(search_text[p])) :
        Matches(p, TriedCandidates(search_text[p])[i]) # <<>>}

\* The position of the last candidate the loop searches: the first one found,
\* or the last one when none is found.
LastSearched(p) ==
    IF CandidateHits(p) = {} THEN Len(TriedCandidates(search_text[p]))
    ELSE SetMin(CandidateHits(p))

-----------------------------------------------------------------------------
(* C14 *)

\* C14: for a query of 3 or fewer whitespace-separated words no candidate is
\* built and the primitive is never invoked with anything but the query and
\* its normalization; when these two searches find nothing the call goes from
\* Tier 2 directly to the fuzzy line search.
C14_ChunkSearchNeedsFourWords ==
    \A p \in Procs :
        Loaded(p) /\ Len(split(search_text[p])) <= 3 =>
            /\ chunks[p] = <<>>
            /\ pc[p] # "chunk"
            /\ Len(searched[p]) <= 2
            /\ \A i \in 1..Len(searched[p]) :
                   searched[p][i] \in {search_text[p], Normalized(search_text[p])}
            /\ Done(p) /\ Matches(p, search_text[p]) = <<>>
                       /\ Matches(p, Normalized(search_text[p])) = <<>> =>
                   /\ searched[p] = <<search_text[p], Normalized(search_text[p])>>
                   /\ n_fuzzy[p] = 1

\* The three-word query "a b c" failed Tiers 1 and 2 and went through the
\* fuzzy line search without a chunk search.
C14_Witness ==
    \E p \in Procs :
        /\ Done(p) /\ Loaded(p)
        /\ search_text[p] = Letters(3)
        /\ searched[p] = <<Letters(3), Letters(3)>>
        /\ n_fuzzy[p] = 1
        /\ printed[p] = "none"

-----------------------------------------------------------------------------
(* C15 *)

\* What a call returns when it runs alone on a page it loaded: a function of
\* the page, the query and the threshold.
Locate(page, text, threshold) ==
    LET exact == search_for(page, text)
        clean == search_for(page, Normalized(text))
        tried == IF Len(split(text)) > 3 THEN TriedCandidates(text) ELSE <<>>
        hits == {i \in 1..Len(tried) : search_for(page, tried[i]) # <<>>}
    IN  IF exact # <<>> THEN [i \in 1..Len(exact) |-> Tier1Formula(exact[i])]
        ELSE IF clean # <<>> THEN [i \in 1..Len(clean) |-> Tier2Formula(clean[i])]
        ELSE IF hits # {}
             THEN [i \in 1..Len(search_for(page, tried[SetMin(hits)])) |->
                      Tier2Formula(search_for(page, tried[SetMin(hits)])[i])]
        ELSE fuzzy_line_search(page, text, threshold)

\* The step leaves everything of call p as it is.
LeftAlone(p) ==
        /\ pc'[p] = pc[p]
        /\ doc'[p] = doc[p] /\ doc_open'[p] = doc_open[p] /\ n_close'[p] = n_close[p]
        /\ search_text'[p] = search_text[p] /\ page_num'[p] = page_num[p]
        /\ similarity_threshold'[p] = similarity_threshold[p]
        /\ rectangles'[p] = rectangles[p] /\ chunks'[p] = chunks[p] /\ ci'[p] = ci[p]
        /\ searched'[p] = searched[p] /\ n_fuzzy'[p] = n_fuzzy[p]
        /\ printed'[p] = printed[p] /\ result'[p] = result[p]

\* Once a call is in progress its page, query and threshold stay as they are.
LayoutUnchanged(p) ==
    pc[p] # "idle" =>
        /\ doc'[p] = doc[p]
        /\ search_text'[p] = search_text[p]
        /\ similarity_threshold'[p] = similarity_threshold[p]

-----------------------------------------------------------------------------
(* C16 *)

\* The characters of a chunk that are not whitespace.
NonSpaceCount(chunk) == Cardinality({i \in 1..Len(chunk) : ~IsSpace(chunk[i])})

\* The chunk loop of call p went over all four candidates and found none.
AllChunksPassed(p) ==
    Done(p) /\ Loaded(p) /\ Len(chunks[p]) = 4 /\ printed[p] # "chunk"

\* Candidate i of call p was passed to the search primitive.
WasSearched(p, i) ==
    \E k \in 3..Len(searched[p]) : searched[p][k] = chunks[p][i]

\* C16 as claimed: a candidate is skipped exactly when it has fewer than 4
\* characters that are not whitespace.
C16_Original ==
    \A p \in Procs :
        AllChunksPassed(p) =>
            \A i \in 1..4 : WasSearched(p, i) <=> NonSpaceCount(chunks[p][i]) >= 4

\* C16, amended: a candidate is skipped exactly when it is 3 or fewer
\* characters long, the single spaces between its words included ("a b" is
\* skipped, "a b c" is searched); every candidate with 4 or more characters
\* that are not whitespace is searched.
C16_SkipRuleCountsSpaces ==
    \A p \in Procs :
        AllChunksPassed(p) =>
            \A i \in 1..4 :
                /\ WasSearched(p, i) <=> Len(chunks[p][i]) > 3
                /\ NonSpaceCount(chunks[p][i]) >= 4 => WasSearched(p, i)

\* For "a b c d e" the first half "a b", which the page holds, was skipped and
\* the second half "c d e", three letters, was searched.
C16_Witness ==
    \E p \in Procs :
        /\ AllChunksPassed(p)
        /\ search_text[p] = Letters(5)
        /\ Matches(p, Letters(2)) # <<>>
        /\ chunks[p][1] = Letters(2)
        /\ chunks[p][2] = SubSeq(Alphabet, 5, 9)
        /\ searched[p] = <<Letters(5), Letters(5), SubSeq(Alphabet, 5, 9), Letters(5), Letters(5)>>

-----------------------------------------------------------------------------
(* C17 *)

\* The highest score over the lines of the page of call p exceeds x.
MaxScoreExceeds(p, x) ==
    Len(LinesOf(p)) > 0 /\ FracGt(ScoreOf(p, BestLine(p)), x)

\* C17 as claimed: Tier 4 returns the rectangle of the first line, in scan
\* order, that attains the maximum score, provided the maximum strictly
\* exceeds the threshold, and nothing otherwise.
C17_Original ==
    \A p \in Procs :
        n_fuzzy[p] = 1 =>
            rectangles[p] =
                IF MaxScoreExceeds(p, similarity_threshold[p])
                THEN <<LineBox(p, BestLine(p))>>
                ELSE <<>>

\* C17, amended: Tier 4 returns the rectangle of the first line, in scan
\* order, that attains the maximum score, provided the maximum strictly
\* exceeds the threshold and is greater than 0, and nothing otherwise; a later
\* line with the same score does not replace it.
C17_FirstBestLineWins ==
    \A p \in Procs :
        n_fuzzy[p] = 1 =>
            rectangles[p] =
                IF /\ MaxScoreExceeds(p, similarity_threshold[p])
                   /\ MaxScoreExceeds(p, Frac(0, 1))
                THEN <<LineBox(p, BestLine(p))>>
                ELSE <<>>

\* Tier 4 returned the second line of a page whose first line scores less and
\* whose third line scores the same, in another block, with another box.
C17_Witness ==
    \E p \in Procs :
        /\ n_fuzzy[p] = 1
        /\ Len(LinesOf(p)) = 4
        /\ BestLine(p) = 2
        /\ FracGt(ScoreOf(p, 2), ScoreOf(p, 1))
        /\ FracEq(ScoreOf(p, 3), ScoreOf(p, 2))
        /\ ~FracEq(ScoreOf(p, 2), Frac(1, 1))
        /\ LineBox(p, 3) # LineBox(p, 2)
        /\ rectangles[p] = <<LineBox(p, 2)>>

-----------------------------------------------------------------------------
(* C18 *)

\* The words of line k of the page of call p, as the fuzzy search sees them.
LineWords(p, k) == WordsOf(line_text_of(LinesOf(p)[k].spans))

\* The partial-word score the code computes for the query of p and line k.
PartialScoreOf(p, k) == partial_score(LineWords(p, k), WordsOf(search_text[p]))

\* The code gets to the partial-word score of line k: the query has words and
\* is not a substring of the line.
PartialScoreComputed(p, k) ==
    /\ n_fuzzy[p] = 1
    /\ Len(WordsOf(search_text[p])) > 0
    /\ ~InStr(join(WordsOf(search_text[p])), join(LineWords(p, k)))

\* The query words longer than 3 characters that are a substring of some word
\* of line k or have some word of line k as a substring.
RelatedQueryWords(p, k) ==
    {i \in 1..Len(WordsOf(search_text[p])) :
        /\ Len(WordsOf(search_text[p])[i]) > 3
        /\ \E j \in 1..Len(LineWords(p, k)) :
               \/ InStr(WordsOf(search_text[p])[i], LineWords(p, k)[j])
               \/ InStr(LineWords(p, k)[j], WordsOf(search_text[p])[i])}

\* The pairs (query word, line word) in which the query word is longer than 3
\* characters and a substring of the line word, or the line word is longer
\* than 3 characters and a substring of the query word.
RelatedPairs(p, k) ==
    {ij \in (1..Len(WordsOf(search_text[p]))) \X (1..Len(LineWords(p, k))) :
        \/ /\ Len(WordsOf(search_text[p])[ij[1]]) > 3
           /\ InStr(WordsOf(search_text[p])[ij[1]], LineWords(p, k)[ij[2]])
        \/ /\ Len(LineWords(p, k)[ij[2]]) > 3
           /\ InStr(LineWords(p, k)[ij[2]], WordsOf(search_text[p])[ij[1]])}

\* min(1.0, 0.5 * count / n) as a fraction.
HalvesOver(count, n) == IF count >= 2 * n THEN Frac(1, 1) ELSE Frac(count, 2 * n)

\* C18 as claimed: the partial-word score is min(1.0, 0.5 * k / n) with k the
\* number of related query words, each of which adds 0.5 at most.
C18_Original ==
    \A p \in Procs : \A k \in 1..Len(LinesOf(p)) :
        PartialScoreComputed(p, k) =>
            FracEq(PartialScoreOf(p, k),
                   HalvesOver(Cardinality(RelatedQueryWords(p, k)),
                              Len(WordsOf(search_text[p]))))

\* C18, amended: the partial-word score is min(1.0, 0.5 * k / n) with k the
\* number of related pairs (query word, line word): a query word adds 0.5 for
\* every line word it is related to, and a line word contained in a query
\* word counts only if the line word is longer than 3 characters.
C18_PartialScorePerPair ==
    \A p \in Procs : \A k \in 1..Len(LinesOf(p)) :
        PartialScoreComputed(p, k) =>
            FracEq(PartialScoreOf(p, k),
                   HalvesOver(Cardinality(RelatedPairs(p, k)),
                              Len(WordsOf(search_text[p]))))

\* "Company-shall-indemnify" against the scenario line: one query word, three
\* related pairs, 1.5 capped at 1.0, and Tier 4 returns the line.
C18_Witness ==
    \E p \in Procs :
        /\ search_text[p] = ThreeInOneWord
        /\ Len(LinesOf(p)) = 1
        /\ PartialScoreComputed(p, 1)
        /\ Cardinality(RelatedQueryWords(p, 1)) = 1
        /\ Cardinality(RelatedPairs(p, 1)) = 3
        /\ FracEq(PartialScoreOf(p, 1), Frac(1, 1))
        /\ similarity_threshold[p] = DefaultThreshold
        /\ rectangles[p] = <<LineBox(p, 1)>>

-----------------------------------------------------------------------------
(* C19 *)

\* A text lower-cased, its whitespace runs collapsed to single spaces.
Folded(text) == join(split(lower(text)))

\* The text of line k of the page of call p: its fragment texts, concatenated.
LineTextOf(p, k) == line_text_of(LinesOf(p)[k].spans)

\* (i) the fraction of the query words that are whole words of line k.
WordOverlapOf(p, k) ==
    LET q == split(Folded(search_text[p]))
        l == split(Folded(LineTextOf(p, k)))
    IN  Frac(Cardinality({i \in 1..Len(q) : \E j \in 1..Len(l) : l[j] = q[i]}), Len(q))

\* (iii) |Q \cap L| / |Q \cup L| over the word sets; 1 if both are empty, 0 if
\* exactly one is.
JaccardOf(p, k) ==
    LET Q == {split(Folded(search_text[p]))[i] : i \in 1..Len(split(Folded(search_text[p])))}
        L == {split(Folded(LineTextOf(p, k)))[j] : j \in 1..Len(split(Folded(LineTextOf(p, k))))}
    IN  IF Q = {} /\ L = {} THEN Frac(1, 1)
        ELSE IF Q = {} \/ L = {} THEN Frac(0, 1)
        ELSE Frac(Cardinality(Q \cap L), Cardinality(Q \cup L))

\* The query of p, folded, is a substring of line k, folded.
QueryInLine(p, k) == InStr(Folded(search_text[p]), Folded(LineTextOf(p, k)))

-----------------------------------------------------------------------------
(* C20 *)

\* The fragment boxes of line k of the page of call p.
FragmentBoxes(p, k) ==
    {LinesOf(p)[k].spans[i].bbox : i \in 1..Len(LinesOf(p)[k].spans)}

\* The rectangle the Tier-4 formula gives for a set B of fragment boxes
\* <<x0, y0, x1, y1>>, in hundredths: x = max(0, min x0 - 2),
\* y = max(0, min y0 - 1 + 3), width = (max x1 - min x0) + 4,
\* height = (max y1 - min y0) + 2.
Tier4Formula(B) ==
    LET min_x0 == CHOOSE v \in {b[1] : b \in B} : \A b \in B : v <= b[1]
        min_y0 == CHOOSE v \in {b[2] : b \in B} : \A b \in B : v <= b[2]
        max_x1 == CHOOSE v \in {b[3] : b \in B} : \A b \in B : v >= b[3]
        max_y1 == CHOOSE v \in {b[4] : b \in B} : \A b \in B : v >= b[4]
    IN  [x |-> IF min_x0 > 2 THEN 100 * (min_x0 - 2) ELSE 0,
         y |-> IF min_y0 - 1 + 3 > 0 THEN 100 * (min_y0 - 1 + 3) ELSE 0,
         width |-> 100 * (max_x1 - min_x0 + 4),
         height |-> 100 * (max_y1 - min_y0 + 2)]

\* C20: a Tier-4 result is one rectangle, the Tier-4 formula applied to the
\* fragment boxes of the winning line and of no other line.
C20_Tier4RectangleFormula ==
    \A p \in Procs :
        Done(p) /\ printed[p] = "fuzzy" =>
            result[p] = <<Tier4Formula(FragmentBoxes(p, BestLine(p)))>>

\* "a b c" won by the second line of the edge page, whose two fragments share
\* the extremes, while the first line has a box over the whole page.
C20_Witness ==
    \E p \in Procs :
        /\ Done(p) /\ printed[p] = "fuzzy"
        /\ Len(LinesOf(p)) = 2
        /\ BestLine(p) = 2
        /\ FragmentBoxes(p, 1) = {<<0 - 3, 0 - 5, 500, 700>>}
        /\ FragmentBoxes(p, 2) = {<<1, 50, 30, 62>>, <<30, 48, 90, 60>>}
        /\ result[p] = <<[x |-> 0, y |-> 5000, width |-> 9300, height |-> 1600]>>

-----------------------------------------------------------------------------
(* C21 *)

\* What locate returns for a highlight of the uploaded file.
LocateHighlight(h) ==
    IF h.page <= UploadDocument.len
    THEN Locate(UploadDocument, h.text_to_highlight, DefaultThreshold)
    ELSE <<>>

\* The highlights of hs that locate finds, in the order of hs, each with the
\* first rectangle of its list as rect.
RECURSIVE Rendered(_)
Rendered(hs) ==
    IF hs = <<>> THEN <<>>
    ELSE (IF LocateHighlight(Head(hs)) = <<>> THEN <<>>
          ELSE << [text_to_highlight |-> Head(hs).text_to_highlight,
                   page |-> Head(hs).page,
                   rect |-> LocateHighlight(Head(hs))[1]] >>)
         \o Rendered(Tail(hs))

\* C21: after each highlight and when the result is stored, the processed
\* highlights are the highlights handled so far whose locate call returned a
\* non-empty list, in their input order, each with the first rectangle of its
\* list as rect; a highlight with an empty list is left out and no call
\* raises.
C21_CallerSkipsEmptyResults ==
    /\ pc["c1"] # "raised"
    /\ upload_pc \in {"loop", "stored"} =>
           processed_highlights = Rendered(SubSeq(highlights, 1, highlight_index - 1))

\* Three highlights were stored as two: the one in the middle, found by no
\* tier, is left out, the first has the first of its two rectangles.
C21_Witness ==
    /\ upload_pc = "stored"
    /\ Len(highlights) = 3
    /\ highlights[1] = Highlight(Letters(1), 1)
    /\ highlights[2] = Highlight(Letters(4), 1)
    /\ highlights[3] = Highlight(<<"a", " ", " ", "b">>, 1)
    /\ Len(processed_highlights) = 2
    /\ processed_highlights[1].text_to_highlight = Letters(1)
    /\ processed_highlights[1].rect = Tier1Formula(Raw(50, 100, 250, 120))
    /\ processed_highlights[2].text_to_highlight = <<"a", " ", " ", "b">>

-----------------------------------------------------------------------------
(* C22 *)

\* The instances the primitive reported for the last needle it was given: the
\* raw boxes behind the result of Tier 1, 2 or 3.
RawMatches(p) == Matches(p, searched[p][Len(searched[p])])

\* The union of a set B of fragment boxes <<x0, y0, x1, y1>>.
UnionBox(B) ==
    [x0 |-> CHOOSE v \in {b[1] : b \in B} : \A b \in B : v <= b[1],
     y0 |-> CHOOSE v \in {b[2] : b \in B} : \A b \in B : v <= b[2],
     x1 |-> CHOOSE v \in {b[3] : b \in B} : \A b \in B : v >= b[3],
     y1 |-> CHOOSE v \in {b[4] : b \in B} : \A b \in B : v >= b[4]]

\* A raw box with x1 >= x0 and y1 >= y0.
WellFormed(m) == m.x1 >= m.x0 /\ m.y1 >= m.y0

\* C22: no returned rectangle has a negative x or y; a rectangle of Tiers 1-3
\* for a well-formed raw box is at least 4 wider and 2 higher than the box, a
\* Tier-4 rectangle is exactly 4 wider and 2 higher than the union box of the
\* line, so that every width is at least 4 and every height at least 2
\* (in hundredths: 400 and 200).
C22_RectanglesNonNegativeAndPadded ==
    \A p \in Procs :
        Done(p) =>
            /\ \A i \in 1..Len(result[p]) :
                   /\ result[p][i].x >= 0
                   /\ result[p][i].y >= 0
            /\ printed[p] \in {"exact", "clean", "chunk"} =>
                   /\ Len(result[p]) = Len(RawMatches(p))
                   /\ \A i \in 1..Len(result[p]) :
                          WellFormed(RawMatches(p)[i]) =>
                              /\ result[p][i].width >=
                                     100 * (RawMatches(p)[i].x1 - RawMatches(p)[i].x0) + 400
                              /\ result[p][i].height >=
                                     100 * (RawMatches(p)[i].y1 - RawMatches(p)[i].y0) + 200
                              /\ result[p][i].width >= 400
                              /\ result[p][i].height >= 200
            /\ printed[p] = "fuzzy" =>
                   LET u == UnionBox(FragmentBoxes(p, BestLine(p)))
                   IN  /\ Len(result[p]) = 1
                       /\ WellFormed(u) =>
                              /\ result[p][1].width = 100 * (u.x1 - u.x0) + 400
                              /\ result[p][1].height = 100 * (u.y1 - u.y0) + 200
                              /\ result[p][1].width >= 400
                              /\ result[p][1].height >= 200

\* A Tier-3 result for an empty raw box at the page origin: width and height
\* are exactly 4 and 2, x is clamped at 0.
C22_Witness ==
    \E p \in Procs :
        /\ Done(p) /\ printed[p] = "chunk"
        /\ RawMatches(p) = <<Raw(0, 0, 0, 0)>>
        /\ result[p] = <<[x |-> 0, y |-> 200, width |-> 400, height |-> 200]>>

-----------------------------------------------------------------------------
(* C23 *)

\* Width and height of a padded rectangle of Tiers 1-3 as functions of the
\* raw width w and the raw height h alone, and the paddings, in hundredths.
PadX(w) == IF 2 * w > 200 THEN 2 * w ELSE 200

PadY(h) == IF 10 * h > 100 THEN 10 * h ELSE 100

PaddedWidth(w) == 100 * w + 2 * PadX(w)

PaddedHeight(h) == 100 * h + 2 * PadY(h)

\* The offsets of the tier that produced the result of p, in hundredths.
TierOffsetX(p) == IF printed[p] = "exact" THEN 150 ELSE 0

TierOffsetY(p) == IF printed[p] = "exact" THEN 2500 ELSE 300

\* Rectangle r of call p, made from the raw box m, is not clipped: its width
\* and height are those of the raw size, and where the padded, shifted origin
\* of m is negative the coordinate is 0 and the far edge of r lies beyond the
\* far edge of the padded box of m.
Unclipped(p, r, m) ==
    LET w == m.x1 - m.x0
        h == m.y1 - m.y0
    IN  /\ r.width = PaddedWidth(w)
        /\ r.height = PaddedHeight(h)
        /\ 100 * m.x0 - PadX(w) + TierOffsetX(p) < 0 =>
               /\ r.x = 0
               /\ r.x + r.width > 100 * m.x1 + PadX(w) + TierOffsetX(p)
               /\ r.x + r.width > 100 * m.x1 + PadX(w)
        /\ 100 * m.y0 - PadY(h) + TierOffsetY(p) < 0 =>
               /\ r.y = 0
               /\ r.y + r.height > 100 * m.y1 + PadY(h) + TierOffsetY(p)
               /\ r.y + r.height > 100 * m.y1 + PadY(h)

\* The same for the Tier-4 rectangle r of the union box u of a line: the
\* paddings are 2 and 1, the vertical offset is 3.
UnclippedLine(r, u) ==
    /\ r.width = 100 * (u.x1 - u.x0) + 400
    /\ r.height = 100 * (u.y1 - u.y0) + 200
    /\ 100 * (u.x0 - 2) < 0 =>
           /\ r.x = 0
           /\ r.x + r.width > 100 * (u.x1 + 2)
    /\ 100 * (u.y0 - 1 + 3) < 0 =>
           /\ r.y = 0
           /\ r.y + r.height > 100 * (u.y1 + 1 + 3)
           /\ r.y + r.height > 100 * (u.y1 + 1)

\* C23: clamping x or y to 0 leaves width and height as the raw size gives
\* them, in all tiers; a rectangle whose padded origin would be negative
\* starts at 0 and reaches beyond the right or bottom edge of the padded raw
\* box, it is not clipped.
C23_ClampingDoesNotClip ==
    \A p \in Procs :
        Done(p) =>
            /\ printed[p] \in {"exact", "clean", "chunk"} =>
                   \A i \in 1..Len(result[p]) :
                       Unclipped(p, result[p][i], RawMatches(p)[i])
            /\ printed[p] = "fuzzy" =>
                   UnclippedLine(result[p][1], UnionBox(FragmentBoxes(p, BestLine(p))))

\* A Tier-1 result for a wide, tall match near the page origin: both padded
\* coordinates would be negative (-0.5 and -1), both are 0, and the rectangle
\* ends at 156 and 360 while the padded box ends at 154 and 334.
C23_Witness ==
    \E p \in Procs :
        /\ Done(p) /\ printed[p] = "exact"
        /\ Matches(p, search_text[p]) = <<Raw(1, 4, 151, 304)>>
        /\ result[p] = <<[x |-> 0, y |-> 0, width |-> 15600, height |-> 36000]>>

-----------------------------------------------------------------------------
(* C24 *)

\* A score between 0 and 1, both included.
InUnitInterval(s) == s.d > 0 /\ s.n >= 0 /\ s.n <= s.d

\* The threshold of call p is 1.0 or more.
ThresholdAtLeastOne(p) == similarity_threshold[p].n >= similarity_threshold[p].d

\* C24: the score of the query against every line of the page is in [0, 1];
\* with a threshold of 1.0 or more the line scan selects nothing, and the
\* call, which has reached it because Tiers 1-3 found nothing, returns the
\* empty list.
C24_ScoresInUnitInterval ==
    \A p \in Procs :
        /\ Loaded(p) =>
               \A k \in 1..Len(LinesOf(p)) : InUnitInterval(ScoreOf(p, k))
        /\ n_fuzzy[p] = 1 /\ ThresholdAtLeastOne(p) =>
               /\ rectangles[p] = <<>>
               /\ printed[p] = "none"
               /\ Done(p) => result[p] = <<>>

\* The scan ran with threshold 1.0 over a page with a line that holds the
\* query (score 1.0), and the call returned the empty list.
C24_Witness ==
    \E p \in Procs :
        /\ Done(p) /\ n_fuzzy[p] = 1
        /\ similarity_threshold[p] = Frac(1, 1)
        /\ \E k \in 1..Len(LinesOf(p)) : ScoreOf(p, k) = Frac(1, 1)
        /\ \E k \in 1..Len(LinesOf(p)) :
               FracGt(ScoreOf(p, k), Frac(0, 1)) /\ FracGt(Frac(1, 1), ScoreOf(p, k))
        /\ result[p] = <<>>

-----------------------------------------------------------------------------
(* C25 *)

\* Line k of the page of call p scores 0.
ScoresZero(p, k) == ScoreOf(p, k).n = 0

\* The lines of the page of call p whose rectangle the scan returned.
SelectedLines(p) ==
    {k \in 1..Len(LinesOf(p)) :
        rectangles[p] = <<Tier4Formula(FragmentBoxes(p, k))>>}

\* C25: after the line scan, for every threshold (negative ones included), a
\* rectangle is returned only for a line whose score exceeds the threshold and
\* exceeds 0; no line of score 0 is selected, and a page whose lines all score
\* 0 gives the empty list.
C25_BestScoreStartsAtZero ==
    \A p \in Procs :
        n_fuzzy[p] = 1 =>
            /\ rectangles[p] # <<>> =>
                   /\ SelectedLines(p) # {}
                   /\ \A k \in SelectedLines(p) :
                          /\ FracGt(ScoreOf(p, k), similarity_threshold[p])
                          /\ FracGt(ScoreOf(p, k), Frac(0, 1))
                          /\ ~ScoresZero(p, k)
            /\ (\A k \in 1..Len(LinesOf(p)) : ScoresZero(p, k)) =>
                   /\ rectangles[p] = <<>>
                   /\ Done(p) => result[p] = <<>>

\* The scan ran with a negative threshold over a page of four lines that all
\* score 0, above the threshold, and the call returned the empty list.
C25_Witness ==
    \E p \in Procs :
        /\ Done(p) /\ n_fuzzy[p] = 1
        /\ similarity_threshold[p] = Frac(0 - 1, 10)
        /\ Len(LinesOf(p)) = 4
        /\ \A k \in 1..4 :
               ScoresZero(p, k) /\ FracGt(ScoreOf(p, k), similarity_threshold[p])
        /\ result[p] = <<>>

-----------------------------------------------------------------------------
(* C26 *)

\* The number of words of the query of call p.
WordCount(p) == Len(split(search_text[p]))

\* The first and the second half of the words of the query of call p.
FirstHalf(p) == WordRange(search_text[p], 0, WordCount(p) \div 2)

SecondHalf(p) == WordRange(search_text[p], WordCount(p) \div 2, WordCount(p))

\* C26: once a query of 4 to 6 words has its candidates, the third and the
\* fourth (first 6, last 6 words) are the normalized query, which is the second
\* string the primitive was given and for which it reported nothing; a Tier-3
\* result of such a query comes from the first or the second candidate, the
\* first or the second half of the words.
C26_ShortQueriesOnlyHalves ==
    \A p \in Procs :
        chunks[p] # <<>> /\ WordCount(p) \in 4..6 =>
            /\ chunks[p][3] = Normalized(search_text[p])
            /\ chunks[p][4] = Normalized(search_text[p])
            /\ Len(searched[p]) >= 2
            /\ searched[p][2] = Normalized(search_text[p])
            /\ Matches(p, searched[p][2]) = <<>>
            /\ Matches(p, chunks[p][3]) = <<>>
            /\ Matches(p, chunks[p][4]) = <<>>
            /\ printed[p] = "chunk" =>
                   /\ ci[p] \in {1, 2}
                   /\ searched[p][Len(searched[p])] \in {FirstHalf(p), SecondHalf(p)}
                   /\ searched[p][Len(searched[p])] # Normalized(search_text[p])

\* The 5-word query "\ta b c d e ": the primitive was given the query, its
\* normalization "a b c d e" and the second half "c d e" (the first half
\* "a b" is too short to be tried), and the second half gave the result.
C26_Witness ==
    \E p \in Procs :
        /\ Done(p) /\ printed[p] = "chunk"
        /\ search_text[p] = <<"\t">> \o Letters(5) \o <<" ">>
        /\ chunks[p] = <<Letters(2), SubSeq(Letters(5), 5, 9), Letters(5), Letters(5)>>
        /\ searched[p] = <<search_text[p], Letters(5), SubSeq(Letters(5), 5, 9)>>
        /\ ci[p] = 2
        /\ result[p] # <<>>

-----------------------------------------------------------------------------
(* C27 *)

\* String a begins string b, and string a ends string b.
IsPrefix(a, b) == Len(a) <= Len(b) /\ SubSeq(b, 1, Len(a)) = a

IsSuffix(a, b) == Len(a) <= Len(b) /\ SubSeq(b, Len(b) - Len(a) + 1, Len(b)) = a

\* C27: a query of at most 13 words has a first half that begins its first 6
\* words, a query of at most 12 words a second half that ends its last 6
\* words. Hence, when the primitive finds every string contained in a string
\* it finds, the candidate that produces a Tier-3 result is the third (first 6
\* words) only for a query of 14 words or more, and the fourth (last 6 words)
\* only for a query of 13 words or more.
C27_SixWordCandidatesNeedLongQueries ==
    \A p \in Procs :
        /\ chunks[p] # <<>> =>
               /\ WordCount(p) <= 13 => IsPrefix(chunks[p][1], chunks[p][3])
               /\ WordCount(p) <= 12 => IsSuffix(chunks[p][2], chunks[p][4])
        /\ Done(p) /\ printed[p] = "chunk" /\ SubPhraseClosed(p) =>
               /\ ci[p] = 3 => WordCount(p) >= 14
               /\ ci[p] = 4 => WordCount(p) >= 13

\* A 14-word query on a page that holds its first 6 words and neither half:
\* the third candidate produced the result.
C27_Witness ==
    \E p \in Procs :
        /\ Done(p) /\ printed[p] = "chunk" /\ SubPhraseClosed(p)
        /\ search_text[p] = Letters(14)
        /\ ci[p] = 3
        /\ searched[p] = <<Letters(14), Letters(14), Letters(7),
                           SubSeq(Letters(14), 15, 27), Letters(6)>>
        /\ Matches(p, Letters(6)) # <<>>
        /\ result[p] # <<>>

-----------------------------------------------------------------------------
(* C28 *)

\* Call p is between the opening of the document and its closing.
Working(p) == pc[p] \in {"guard", "tier1", "tier2", "tier3", "chunk", "tier4", "close"}

\* The step uses the document of call p: it searches the page or scans its
\* lines.
UsesDocument(p) ==
    \/ Len(searched'[p]) > Len(searched[p])
    \/ n_fuzzy'[p] > n_fuzzy[p]

\* The step returns the result of call p.
ReturnsResult(p) == pc[p] # "done" /\ pc'[p] = "done"

\* C28: on every path that raises no exception the document is open and not
\* yet closed while the call works, each step that searches the page or scans
\* its lines takes place with the document open, the result is returned with
\* the document closed, and it has then been closed exactly once.
C28_ClosedOnceBeforeReturn ==
    /\ [](\A p \in Procs :
            /\ Working(p) => doc_open[p] /\ n_close[p] = 0
            /\ pc[p] \in {"return", "done"} => ~doc_open[p] /\ n_close[p] = 1)
    /\ [][\A p \in Procs :
            /\ UsesDocument(p) => doc_open[p] /\ doc_open'[p] /\ n_close[p] = 0
            /\ ReturnsResult(p) => ~doc_open[p] /\ n_close[p] = 1 /\ n_close'[p] = 1
            /\ n_close'[p] > n_close[p] => doc_open[p] /\ ~doc_open'[p]]_vars

\* A call that Tier 2 answered has returned: the document is closed, and was
\* closed once.
C28_Witness ==
    \E p \in Procs :
        /\ Done(p) /\ printed[p] = "clean"
        /\ result[p] # <<>>
        /\ ~doc_open[p]
        /\ n_close[p] = 1

-----------------------------------------------------------------------------
(* C29 *)

\* Call p has passed its page guard.
PastGuard(p) == pc[p] \notin {"idle", "guard", "coord_guard"}

\* Call p has reached the end of the function (the close, the return, or
\* after it).
AtEnd(p) ==
    pc[p] \in {"close", "return", "done", "coord_close", "coord_return", "coord_done"}

\* C29: a call of find_text_fuzzy or of find_text_coordinates with a page
\* number above the page count goes from the guard to the end without a
\* search of the page and without a line scan, raises nothing, and returns
\* the empty list. A page number of 0 or below passes the guard: the call
\* goes on to take the page, and ends only after a search or by the
\* exception of the page access.
C29_PageGuardUpperBoundOnly ==
    \A p \in Procs :
        PastGuard(p) =>
            /\ page_num[p] > doc[p].len =>
                   /\ AtEnd(p)
                   /\ searched[p] = <<>>
                   /\ n_fuzzy[p] = 0
                   /\ rectangles[p] = <<>>
                   /\ pc[p] \in {"done", "coord_done"} => result[p] = <<>>
            /\ page_num[p] <= 0 /\ AtEnd(p) =>
                   /\ Len(searched[p]) >= 1
                   /\ searched[p][1] = search_text[p]

\* Both functions were called with page 2 of a one-page document whose page
\* holds the query, and both returned the empty list without a search.
C29_Witness ==
    /\ pc["c1"] = "done" /\ pc["c2"] = "coord_done"
    /\ \A p \in Procs :
           /\ doc[p].len = 1 /\ page_num[p] = 2
           /\ search_for(doc[p], search_text[p]) # <<>>
           /\ searched[p] = <<>> /\ n_fuzzy[p] = 0
           /\ result[p] = <<>>

=============================================================================
